---- MODULE Spec2Model ----
(***************************************************************************)
(* Model of the text-similarity evaluation engine of the repository:       *)
(* src/tenancy_eval/metrics.py (ROUGE-N, ROUGE-L).                         *)
(*                                                                         *)
(* A Python str is a sequence of one-character strings; None and str are   *)
(* the two shapes of a text argument.  A Python float is modelled by the   *)
(* exact rational it approximates, a normalised pair <<num, den>>; the     *)
(* arithmetic is done in the order the code does it.  A raised exception   *)
(* is the field exc of the frame an operator returns.                      *)
(***************************************************************************)
EXTENDS Integers, Sequences, FiniteSets, TLC

(***************************************************************************)
(* Bounds of the model.                                                    *)
(***************************************************************************)
MaxTokens == 3
MaxChars == 2
MaxN == 3

(***************************************************************************)
(* Python values: None | str.                                              *)
(***************************************************************************)
None == [isNone |-> TRUE, chars |-> <<>>]
Str(s) == [isNone |-> FALSE, chars |-> s]

Whitespace == {" ", "\t", "\n"}

\* str.lower() on the ASCII letters; every other character maps to itself.
LowerOf ==
  [A |-> "a", B |-> "b", C |-> "c", D |-> "d", E |-> "e", F |-> "f", G |-> "g",
   H |-> "h", I |-> "i", J |-> "j", K |-> "k", L |-> "l", M |-> "m", N |-> "n",
   O |-> "o", P |-> "p", Q |-> "q", R |-> "r", S |-> "s", T |-> "t", U |-> "u",
   V |-> "v", W |-> "w", X |-> "x", Y |-> "y", Z |-> "z"]

LowerChar(c) == IF c \in DOMAIN LowerOf THEN LowerOf[c] ELSE c

lower(s) == [i \in 1..Len(s) |-> LowerChar(s[i])]

\* str.strip(): drop leading and trailing whitespace.
RECURSIVE lstrip(_)
lstrip(s) == IF s # <<>> /\ Head(s) \in Whitespace THEN lstrip(Tail(s)) ELSE s

RECURSIVE rstrip(_)
rstrip(s) ==
  IF s # <<>> /\ s[Len(s)] \in Whitespace THEN rstrip(SubSeq(s, 1, Len(s) - 1)) ELSE s

strip(s) == rstrip(lstrip(s))

\* str.split() with no separator: the maximal runs of non-whitespace characters.
\* cur is the run being read, acc the runs already closed.
RECURSIVE SplitFrom(_, _, _, _)
SplitFrom(s, i, cur, acc) ==
  IF i > Len(s)
    THEN IF cur = <<>> THEN acc ELSE Append(acc, cur)
    ELSE IF s[i] \in Whitespace
           THEN SplitFrom(s, i + 1, <<>>, IF cur = <<>> THEN acc ELSE Append(acc, cur))
           ELSE SplitFrom(s, i + 1, Append(cur, s[i]), acc)

split(s) == SplitFrom(s, 1, <<>>, <<>>)

\* [t for t in toks if t.strip()]
RECURSIVE KeepNonBlank(_)
KeepNonBlank(toks) ==
  IF toks = <<>> THEN <<>>
  ELSE IF strip(Head(toks)) # <<>>
         THEN <<Head(toks)>> \o KeepNonBlank(Tail(toks))
         ELSE KeepNonBlank(Tail(toks))

\* Faulty variant of _tokenize: the text is not lower-cased.
_tokenize_nolower(text) ==
  IF text.isNone THEN <<>> ELSE KeepNonBlank(split(text.chars))

_tokenize(text) ==
  IF text.isNone THEN <<>> ELSE KeepNonBlank(split(lower(text.chars)))

(***************************************************************************)
(* n-grams and collections.Counter.                                        *)
(***************************************************************************)
\* Faulty variant of _ngrams: range(len(tokens)-n), the last n-gram is lost.
_ngrams_short(tokens, n) ==
  [i \in 1..(Len(tokens) - n) |-> SubSeq(tokens, i, i + n - 1)]

\* Faulty variant of _ngrams: a sequence shorter than n yields itself as one n-gram.
_ngrams_padded(tokens, n) ==
  IF Len(tokens) >= n
    THEN [i \in 1..(Len(tokens) - n + 1) |-> SubSeq(tokens, i, i + n - 1)]
    ELSE IF tokens = <<>> THEN <<>> ELSE <<tokens>>

_ngrams(tokens, n) ==
  IF Len(tokens) >= n
    THEN [i \in 1..(Len(tokens) - n + 1) |-> SubSeq(tokens, i, i + n - 1)]
    ELSE <<>>

\* Counter(seq): one pass over seq, adding 1 to the count of each element.
RECURSIVE CounterFrom(_, _)
CounterFrom(seq, c) ==
  IF seq = <<>> THEN c
  ELSE LET g == Head(seq)
           c1 == IF g \in DOMAIN c
                   THEN [c EXCEPT ![g] = @ + 1]
                   ELSE [x \in DOMAIN c \cup {g} |-> IF x = g THEN 1 ELSE c[x]]
       IN CounterFrom(Tail(seq), c1)

\* Faulty variant of Counter: every distinct element is counted once.
Counter_distinct(seq) == [g \in {seq[i] : i \in 1..Len(seq)} |-> 1]

Counter(seq) == CounterFrom(seq, [x \in {} |-> 0])

\* c.get(key, 0)
CounterGet(c, key) == IF key \in DOMAIN c THEN c[key] ELSE 0

\* sum(c.values())
RECURSIVE SumOver(_, _)
SumOver(c, keys) ==
  IF keys = {} THEN 0
  ELSE LET g == CHOOSE x \in keys : TRUE IN c[g] + SumOver(c, keys \ {g})

CounterTotal(c) == SumOver(c, DOMAIN c)

Min(a, b) == IF a <= b THEN a ELSE b
Max(a, b) == IF a >= b THEN a ELSE b

\* overlap = 0; for ng, c in pred_ngrams.items(): overlap += min(c, ref_ngrams.get(ng, 0))
RECURSIVE OverlapOver(_, _, _)
OverlapOver(pred_ngrams, ref_ngrams, keys) ==
  IF keys = {} THEN 0
  ELSE LET ng == CHOOSE x \in keys : TRUE
       IN Min(pred_ngrams[ng], CounterGet(ref_ngrams, ng))
            + OverlapOver(pred_ngrams, ref_ngrams, keys \ {ng})

\* Faulty variant of the overlap loop: overlap += c, not clipped by the reference count.
RECURSIVE UnclippedOver(_, _, _)
UnclippedOver(pred_ngrams, ref_ngrams, keys) ==
  IF keys = {} THEN 0
  ELSE LET ng == CHOOSE x \in keys : TRUE
       IN (IF ng \in DOMAIN ref_ngrams THEN pred_ngrams[ng] ELSE 0)
            + UnclippedOver(pred_ngrams, ref_ngrams, keys \ {ng})

Overlap_unclipped(pred_ngrams, ref_ngrams) ==
  UnclippedOver(pred_ngrams, ref_ngrams, DOMAIN pred_ngrams)

Overlap(pred_ngrams, ref_ngrams) ==
  OverlapOver(pred_ngrams, ref_ngrams, DOMAIN pred_ngrams)

(***************************************************************************)
(* Exact rationals <<num, den>>, den > 0, in lowest terms.                 *)
(***************************************************************************)
RECURSIVE GCD(_, _)
GCD(a, b) == IF b = 0 THEN a ELSE GCD(b, a % b)

Abs(a) == IF a < 0 THEN -a ELSE a

Norm(num, den) ==
  LET g == GCD(Abs(num), Abs(den))
      s == IF den < 0 THEN -1 ELSE 1
  IN <<(s * num) \div g, (s * den) \div g>>

IntR(k) == <<k, 1>>
Zero == IntR(0)
One == IntR(1)
RAdd(a, b) == Norm(a[1] * b[2] + b[1] * a[2], a[2] * b[2])
RMul(a, b) == Norm(a[1] * b[1], a[2] * b[2])
RQuot(a, b) == Norm(a[1] * b[2], a[2] * b[1])
RLe(a, b) == a[1] * b[2] <= b[1] * a[2]
RLt(a, b) == a[1] * b[2] < b[1] * a[2]

\* Python's a / b: the quotient, or ZeroDivisionError.
TrueDiv(a, b) ==
  IF b[1] = 0 THEN [exc |-> "ZeroDivisionError", val |-> Zero]
              ELSE [exc |-> "none", val |-> RQuot(a, b)]

Ok(v) == [exc |-> "none", val |-> v]

FirstExc(es) ==
  IF \A i \in 1..Len(es) : es[i] = "none" THEN "none"
  ELSE es[CHOOSE i \in 1..Len(es) : es[i] # "none" /\ \A j \in 1..(i - 1) : es[j] = "none"]

\* f1 = (2*p*r)/(p+r) if (p+r) > 0 else 0.0
F1Of(p, r) ==
  IF RLt(Zero, RAdd(p, r))
    THEN TrueDiv(RMul(RMul(IntR(2), p), r), RAdd(p, r))
    ELSE Ok(Zero)

\* Faulty variant of _precision_recall_f1: the divisions are not guarded.
_precision_recall_f1_unguarded(overlap, pred_total, ref_total) ==
  LET p == TrueDiv(IntR(overlap), IntR(pred_total))
      r == TrueDiv(IntR(overlap), IntR(ref_total))
      f1 == IF p.exc = "none" /\ r.exc = "none" THEN F1Of(p.val, r.val) ELSE Ok(Zero)
  IN [exc |-> FirstExc(<<p.exc, r.exc, f1.exc>>), p |-> p.val, r |-> r.val, f1 |-> f1.val]

\* Faulty variant of _precision_recall_f1: f1 is the arithmetic mean of p and r.
_precision_recall_f1_mean(overlap, pred_total, ref_total) ==
  LET p == IF pred_total > 0 THEN TrueDiv(IntR(overlap), IntR(pred_total)) ELSE Ok(Zero)
      r == IF ref_total > 0 THEN TrueDiv(IntR(overlap), IntR(ref_total)) ELSE Ok(Zero)
      f1 == Ok(RQuot(RAdd(p.val, r.val), IntR(2)))
  IN [exc |-> FirstExc(<<p.exc, r.exc, f1.exc>>), p |-> p.val, r |-> r.val, f1 |-> f1.val]

_precision_recall_f1(overlap, pred_total, ref_total) ==
  LET p == IF pred_total > 0 THEN TrueDiv(IntR(overlap), IntR(pred_total)) ELSE Ok(Zero)
      r == IF ref_total > 0 THEN TrueDiv(IntR(overlap), IntR(ref_total)) ELSE Ok(Zero)
      f1 == F1Of(p.val, r.val)
  IN [exc |-> FirstExc(<<p.exc, r.exc, f1.exc>>), p |-> p.val, r |-> r.val, f1 |-> f1.val]

(***************************************************************************)
(* rouge_n: the returned dict (precision, recall, f1), the exception if    *)
(* one is raised, and the locals overlap and the two n-gram totals.        *)
(***************************************************************************)
rouge_n(ref, pred, n) ==
  LET ref_t == _tokenize(ref)
      pred_t == _tokenize(pred)
      ref_ngrams == Counter(_ngrams(ref_t, n))
      pred_ngrams == Counter(_ngrams(pred_t, n))
      overlap == Overlap(pred_ngrams, ref_ngrams)
      pred_total == CounterTotal(pred_ngrams)
      ref_total == CounterTotal(ref_ngrams)
      prf == _precision_recall_f1(overlap, pred_total, ref_total)
  IN [exc |-> prf.exc, precision |-> prf.p, recall |-> prf.r, f1 |-> prf.f1,
      overlap |-> overlap, pred_total |-> pred_total, ref_total |-> ref_total]

(***************************************************************************)
(* Longest common subsequence: one rolling row dp[0..n].                   *)
(***************************************************************************)
\* for j in range(1, n+1): tmp = dp[j]; dp[j] = ...; prev = tmp
RECURSIVE LcsInner(_, _, _, _, _, _)
LcsInner(xs, ys, i, j, dp, prev) ==
  IF j > Len(ys) THEN dp
  ELSE LET tmp == dp[j]
           dp1 == [dp EXCEPT ![j] = IF xs[i] = ys[j] THEN prev + 1
                                                      ELSE Max(dp[j], dp[j - 1])]
       IN LcsInner(xs, ys, i, j + 1, dp1, tmp)

\* for i in range(1, m+1): prev = 0; <inner loop>
RECURSIVE LcsOuter(_, _, _, _)
LcsOuter(xs, ys, i, dp) ==
  IF i > Len(xs) THEN dp
  ELSE LcsOuter(xs, ys, i + 1, LcsInner(xs, ys, i, 1, dp, 0))

\* Faulty variant of _lcs_length: prev takes the updated dp[j], not the value
\* it had before the update.
RECURSIVE LcsInner_noprev(_, _, _, _, _, _)
LcsInner_noprev(xs, ys, i, j, dp, prev) ==
  IF j > Len(ys) THEN dp
  ELSE LET dp1 == [dp EXCEPT ![j] = IF xs[i] = ys[j] THEN prev + 1
                                                      ELSE Max(dp[j], dp[j - 1])]
       IN LcsInner_noprev(xs, ys, i, j + 1, dp1, dp1[j])

RECURSIVE LcsOuter_noprev(_, _, _, _)
LcsOuter_noprev(xs, ys, i, dp) ==
  IF i > Len(xs) THEN dp
  ELSE LcsOuter_noprev(xs, ys, i + 1, LcsInner_noprev(xs, ys, i, 1, dp, 0))

_lcs_length_noprev(xs, ys) ==
  LcsOuter_noprev(xs, ys, 1, [j \in 0..Len(ys) |-> 0])[Len(ys)]

\* Faulty variant of _lcs_length: returns dp[n-1].
_lcs_length_lastbutone(xs, ys) ==
  LcsOuter(xs, ys, 1, [j \in 0..Len(ys) |-> 0])[Max(Len(ys) - 1, 0)]

_lcs_length(xs, ys) == LcsOuter(xs, ys, 1, [j \in 0..Len(ys) |-> 0])[Len(ys)]

\* Faulty variant of rouge_l_f1: recall is divided by len(pred_t) too.
rouge_l_f1_onelength(ref, pred) ==
  LET ref_t == _tokenize(ref)
      pred_t == _tokenize(pred)
      lcs == _lcs_length(ref_t, pred_t)
      p == IF Len(pred_t) > 0 THEN TrueDiv(IntR(lcs), IntR(Len(pred_t))) ELSE Ok(Zero)
      r == IF Len(pred_t) > 0 THEN TrueDiv(IntR(lcs), IntR(Len(pred_t))) ELSE Ok(Zero)
      f1 == F1Of(p.val, r.val)
  IN [exc |-> FirstExc(<<p.exc, r.exc, f1.exc>>),
      precision |-> p.val, recall |-> r.val, f1 |-> f1.val,
      lcs |-> lcs, pred_len |-> Len(pred_t), ref_len |-> Len(ref_t)]

rouge_l_f1(ref, pred) ==
  LET ref_t == _tokenize(ref)
      pred_t == _tokenize(pred)
      lcs == _lcs_length(ref_t, pred_t)
      p == IF Len(pred_t) > 0 THEN TrueDiv(IntR(lcs), IntR(Len(pred_t))) ELSE Ok(Zero)
      r == IF Len(ref_t) > 0 THEN TrueDiv(IntR(lcs), IntR(Len(ref_t))) ELSE Ok(Zero)
      f1 == F1Of(p.val, r.val)
  IN [exc |-> FirstExc(<<p.exc, r.exc, f1.exc>>),
      precision |-> p.val, recall |-> r.val, f1 |-> f1.val,
      lcs |-> lcs, pred_len |-> Len(pred_t), ref_len |-> Len(ref_t)]

(***************************************************************************)
(* The texts the functions are applied to: every string of at most         *)
(* MaxChars characters over Alphabet, every string of at most MaxTokens    *)
(* words of Words joined by single spaces, the texts of the specification's*)
(* examples, and None.                                                     *)
(***************************************************************************)
Alphabet == {"a", "A", " "}
Words == {<<"a">>, <<"b">>}

RECURSIVE Join(_)
Join(ws) ==
  IF ws = <<>> THEN <<>>
  ELSE IF Len(ws) = 1 THEN Head(ws)
  ELSE Head(ws) \o <<" ">> \o Join(Tail(ws))

CharTexts == UNION {[1..k -> Alphabet] : k \in 0..MaxChars}
WordTexts == {Join(ws) : ws \in UNION {[1..k -> Words] : k \in 0..MaxTokens}}

RefRent ==
  <<"t", "h", "e", " ", "t", "e", "n", "a", "n", "t", " ", "m", "u", "s",
  "t", " ", "p", "a", "y", " ", "r", "e", "n", "t", " ", "m", "o", "n", "t",
  "h", "l", "y">>

PredRent ==
  <<"t", "h", "e", " ", "t", "e", "n", "a", "n", "t", " ", "p", "a", "y",
  "s", " ", "r", "e", "n", "t", " ", "e", "v", "e", "r", "y", " ", "m", "o",
  "n", "t", "h">>

TheCat ==
  <<"T", "h", "e", " ", "C", "a", "t">>

the_cat ==
  <<"t", "h", "e", " ", "c", "a", "t">>

BAB ==
  <<"b", " ", "a", " ", "b">>

ABA ==
  <<"a", " ", "b", " ", "a">>

BlankMixed ==
  <<" ", "\t", "\n">>

TabSeparated ==
  <<"A", "\t", "b", "\n", "A">>

ExampleTexts ==
  {RefRent, PredRent, TheCat, the_cat, BAB, ABA, BlankMixed, TabSeparated}

Texts == {None} \cup {Str(s) : s \in CharTexts \cup WordTexts \cup ExampleTexts}

(***************************************************************************)
(* src/tenancy_eval/evaluate.py.                                           *)
(*                                                                         *)
(* JSON values: a string (a sequence of characters, as a Python str) or    *)
(* null.  A JSON object of an input line has the keys of JsonKeys, each    *)
(* present with a value or absent.  A line of an input file is blank, or   *)
(* holds a JSON object, or holds text that is no JSON.                     *)
(***************************************************************************)
MaxTestLines == 2
MaxPredLines == 2

JStr(s) == [t |-> "str", v |-> s]
JNull == [t |-> "null", v |-> <<>>]
JAbsent == [t |-> "absent", v |-> <<>>]

JsonKeys == {"id", "reference_answer", "difficulty", "topic", "model_answer"}

\* {}: the dict without keys.
EmptyDict == [k \in JsonKeys |-> JAbsent]

\* d.get(k, default)
DictGet(d, k, default) == IF d[k].t = "absent" THEN default ELSE d[k]

\* d[k]: the value, or KeyError.
DictItem(d, k) ==
  IF d[k].t = "absent" THEN [exc |-> "KeyError", val |-> JNull]
                       ELSE [exc |-> "none", val |-> d[k]]

\* The text a JSON value is as an argument of rouge_n and rouge_l_f1.
ToText(j) == IF j.t = "null" THEN None ELSE Str(j.v)

BlankLine == [kind |-> "blank", obj |-> EmptyDict]
MalformedLine == [kind |-> "malformed", obj |-> EmptyDict]
JsonLine(o) == [kind |-> "json", obj |-> o]

\* l.strip() is true of a line that is not blank.
\* Faulty variant: a line that does not parse is passed over like a blank one.
NonBlank_lenient(l) == l.kind = "json"

NonBlank(l) == l.kind # "blank"

\* json.loads(l): the object, or JSONDecodeError.
json_loads(l) ==
  IF l.kind = "json" THEN [exc |-> "none", val |-> l.obj]
                     ELSE [exc |-> "JSONDecodeError", val |-> EmptyDict]

\* v = d.get(k, default); return v if v is not None else default
\* Faulty variant: d.get(k, default), a null value returned as it is.
safe_get_nodefault(d, k, default) == DictGet(d, k, default)

safe_get(d, k, default) ==
  LET v == DictGet(d, k, default) IN IF v.t # "null" THEN v ELSE default

Unknown == <<"u", "n", "k", "n", "o", "w", "n">>

(***************************************************************************)
(* Python's order of str: lexicographic on the code points.                *)
(***************************************************************************)
CodePoint ==
  [a |-> 97, b |-> 98, c |-> 99, d |-> 100, e |-> 101, f |-> 102, g |-> 103,
   h |-> 104, i |-> 105, j |-> 106, k |-> 107, l |-> 108, m |-> 109, n |-> 110,
   o |-> 111, p |-> 112, q |-> 113, r |-> 114, s |-> 115, t |-> 116, u |-> 117,
   v |-> 118, w |-> 119, x |-> 120, y |-> 121, z |-> 122]

RECURSIVE StrLess(_, _)
StrLess(x, y) ==
  IF y = <<>> THEN FALSE
  ELSE IF x = <<>> THEN TRUE
  ELSE IF Head(x) = Head(y) THEN StrLess(Tail(x), Tail(y))
  ELSE CodePoint[Head(x)] < CodePoint[Head(y)]

\* The order of the tuples (difficulty, topic).
\* Faulty variant: the topic compared first.
KeyLess_topicfirst(k1, k2) ==
  \/ StrLess(k1[2].v, k2[2].v)
  \/ k1[2] = k2[2] /\ StrLess(k1[1].v, k2[1].v)

KeyLess(k1, k2) ==
  \/ StrLess(k1[1].v, k2[1].v)
  \/ k1[1] = k2[1] /\ StrLess(k1[2].v, k2[2].v)

\* sorted(bucket_scores.items()): the keys, ascending.
RECURSIVE SortedKeys(_)
SortedKeys(S) ==
  IF S = {} THEN <<>>
  ELSE LET lo == CHOOSE x \in S : \A y \in S \ {x} : KeyLess(x, y)
       IN <<lo>> \o SortedKeys(S \ {lo})

\* sorted(xs) of a list of floats.
RECURSIVE InsertSorted(_, _)
InsertSorted(s, x) ==
  IF s = <<>> THEN <<x>>
  ELSE IF RLe(x, Head(s)) THEN <<x>> \o s
  ELSE <<Head(s)>> \o InsertSorted(Tail(s), x)

\* Faulty variant: the list as given.
sorted_asgiven(xs) == xs

RECURSIVE sorted(_)
sorted(xs) == IF xs = <<>> THEN <<>> ELSE InsertSorted(sorted(Tail(xs)), Head(xs))

\* sum(xs) of a list of floats.
RECURSIVE sum(_)
sum(xs) == IF xs = <<>> THEN Zero ELSE RAdd(Head(xs), sum(Tail(xs)))

\* Faulty variant: the sum divided by one more than the length.
mean_safe_biased(xs) == IF xs # <<>> THEN TrueDiv(sum(xs), IntR(Len(xs) + 1)) ELSE Ok(Zero)

\* Faulty variant: sum(xs)/len(xs) whatever xs.
mean_safe_unguarded(xs) == TrueDiv(sum(xs), IntR(Len(xs)))

\* def mean_safe(xs): return sum(xs)/len(xs) if xs else 0.0
mean_safe(xs) == IF xs # <<>> THEN TrueDiv(sum(xs), IntR(Len(xs))) ELSE Ok(Zero)

\* Faulty variant: a negative k is out of range.
PyIndex_nowrap(s, k) ==
  IF k < 0 \/ k >= Len(s) THEN [exc |-> "IndexError", val |-> Zero]
                          ELSE [exc |-> "none", val |-> s[k + 1]]

\* seq[k] of a Python list: a negative k counts from the end; IndexError.
PyIndex(s, k) ==
  LET j == IF k < 0 THEN k + Len(s) ELSE k
  IN IF j < 0 \/ j >= Len(s) THEN [exc |-> "IndexError", val |-> Zero]
                             ELSE [exc |-> "none", val |-> s[j + 1]]

\* int(0.1*len(xs)) and int(0.9*len(xs))
IntTenth(k) == k \div 10
IntNineTenths(k) == (9 * k) \div 10

\* f"{x:.3f}" of x >= 0: the number of thousandths shown, the nearest to x,
\* the even one of two equally near.
Fmt3(x) ==
  LET q == (x[1] * 1000) \div x[2]
      twice == 2 * ((x[1] * 1000) % x[2])
  IN IF twice > x[2] THEN q + 1
     ELSE IF twice < x[2] THEN q
     ELSE IF q % 2 = 0 THEN q ELSE q + 1

(***************************************************************************)
(* evaluate(test_path, pred_path, out_md_path, per_item_csv_path): the     *)
(* parts of the function as operators on its locals.                       *)
(***************************************************************************)
\* tests = [json.loads(l) for l in <lines of test_path> if l.strip()]
RECURSIVE LoadTestsFrom(_, _)
LoadTestsFrom(lines, acc) ==
  IF lines = <<>> THEN [exc |-> "none", val |-> acc]
  ELSE IF ~NonBlank(Head(lines)) THEN LoadTestsFrom(Tail(lines), acc)
  ELSE LET parsed == json_loads(Head(lines))
       IN IF parsed.exc # "none" THEN [exc |-> parsed.exc, val |-> <<>>]
          ELSE LoadTestsFrom(Tail(lines), Append(acc, parsed.val))

\* Faulty variant: the test cases in the reverse of the input order.
load_tests_reversed(lines) ==
  LET loaded == LoadTestsFrom(lines, <<>>)
  IN [exc |-> loaded.exc,
      val |-> [q \in 1..Len(loaded.val) |-> loaded.val[Len(loaded.val) + 1 - q]]]

load_tests(lines) == LoadTestsFrom(lines, <<>>)

\* A dict keyed by JSON values: d[key] = val, the first assignment of a key
\* adding it.
DictSet_keepfirst(d, key, val) ==
  IF key \in DOMAIN d THEN d
  ELSE [x \in DOMAIN d \cup {key} |-> IF x = key THEN val ELSE d[x]]

DictSet(d, key, val) == [x \in DOMAIN d \cup {key} |-> IF x = key THEN val ELSE d[x]]

NoPreds == [x \in {} |-> EmptyDict]

\* for l in <lines of pred_path>: if not l.strip(): continue
\*   j = json.loads(l); preds[j["id"]] = j
RECURSIVE LoadPredsFrom(_, _)
LoadPredsFrom(lines, d) ==
  IF lines = <<>> THEN [exc |-> "none", val |-> d]
  ELSE IF ~NonBlank(Head(lines)) THEN LoadPredsFrom(Tail(lines), d)
  ELSE LET parsed == json_loads(Head(lines))
           key == DictItem(parsed.val, "id")
       IN IF parsed.exc # "none" THEN [exc |-> parsed.exc, val |-> d]
          ELSE IF key.exc # "none" THEN [exc |-> key.exc, val |-> d]
          ELSE LoadPredsFrom(Tail(lines), DictSet(d, key.val, parsed.val))

load_preds(lines) == LoadPredsFrom(lines, NoPreds)

\* Faulty variant of the lookup: preds[tid]["model_answer"].
LookupAnswer_strict(d, tid) ==
  IF tid \in DOMAIN d THEN DictItem(d[tid], "model_answer")
                      ELSE [exc |-> "KeyError", val |-> JNull]

\* Faulty variant: a test case without a prediction is given the answer of
\* some other prediction record.
LookupAnswer_borrow(d, tid) ==
  [exc |-> "none",
   val |-> DictGet(IF tid \in DOMAIN d THEN d[tid]
                   ELSE IF DOMAIN d # {} THEN d[CHOOSE x \in DOMAIN d : TRUE]
                   ELSE EmptyDict,
                   "model_answer", JStr(<<>>))]

\* preds.get(tid, {}).get("model_answer", "")
LookupAnswer(d, tid) ==
  [exc |-> "none",
   val |-> DictGet(IF tid \in DOMAIN d THEN d[tid] ELSE EmptyDict,
                   "model_answer", JStr(<<>>))]

\* The body of the loop over tests, for the test case tc: the exception it
\* raises if any, the per-item row and the bucket key.
ScoreTest(tc, d) ==
  LET tid == DictItem(tc, "id")
      refv == DictItem(tc, "reference_answer")
      diff == safe_get(tc, "difficulty", JStr(Unknown))
      topic == safe_get(tc, "topic", JStr(Unknown))
      ans == LookupAnswer(d, tid.val)
      r1 == rouge_n(ToText(refv.val), ToText(ans.val), 1)
      r2 == rouge_n(ToText(refv.val), ToText(ans.val), 2)
      rl == rouge_l_f1(ToText(refv.val), ToText(ans.val))
  IN [exc |-> FirstExc(<<tid.exc, refv.exc, ans.exc, r1.exc, r2.exc, rl.exc>>),
      bkey |-> <<diff, topic>>,
      cand |-> ans.val,
      row |-> [id |-> tid.val, difficulty |-> diff, topic |-> topic,
               rouge1_f1 |-> r1.f1, rouge2_f1 |-> r2.f1, rougeL_f1 |-> rl.f1]]

\* Faulty variant: bucket_scores[bkey] = [rl]
BucketAppend_replace(b, bkey, rl) ==
  [x \in DOMAIN b \cup {bkey} |-> IF x = bkey THEN <<rl>> ELSE b[x]]

\* bucket_scores[bkey].append(rl) of a defaultdict(list)
BucketAppend(b, bkey, rl) ==
  [x \in DOMAIN b \cup {bkey} |->
     IF x = bkey THEN (IF bkey \in DOMAIN b THEN Append(b[bkey], rl) ELSE <<rl>>)
                 ELSE b[x]]

NoBuckets == [x \in {} |-> <<>>]

\* The rows of the bucket table, one for each key in keys.
RECURSIVE BucketRows(_, _)
BucketRows(b, keys) ==
  IF keys = <<>> THEN <<>>
  ELSE LET vals == b[Head(keys)]
           cnt == Len(vals)
           rl_mean == IF cnt # 0 THEN TrueDiv(sum(vals), IntR(cnt)) ELSE Ok(Zero)
       IN <<[exc |-> rl_mean.exc,
             difficulty |-> Head(keys)[1].v, topic |-> Head(keys)[2].v,
             cnt |-> cnt, rl_mean |-> Fmt3(rl_mean.val)]>>
            \o BucketRows(b, Tail(keys))

\* Lines 50-81: the overall statistics and the lines of the report; the
\* numbers of the report are the thousandths that "{:.3f}" shows.
BuildReport(items, r1s, r2s, rls, b) ==
  LET rl_sorted == sorted(rls)
      p10 == IF rl_sorted # <<>> THEN PyIndex(rl_sorted, IntTenth(Len(rl_sorted)))
                                 ELSE Ok(Zero)
      p90 == IF rl_sorted # <<>> THEN PyIndex(rl_sorted, IntNineTenths(Len(rl_sorted)) - 1)
                                 ELSE Ok(Zero)
      m1 == mean_safe(r1s)
      m2 == mean_safe(r2s)
      ml == mean_safe(rls)
      rows == BucketRows(b, SortedKeys(DOMAIN b))
  IN [exc |-> FirstExc(<<p10.exc, p90.exc, m1.exc, m2.exc, ml.exc>>
                        \o [x \in 1..Len(rows) |-> rows[x].exc]),
      overall |-> [count |-> Len(items), rouge1_mean |-> m1.val, rouge2_mean |-> m2.val,
                   rougeL_mean |-> ml.val, rougeL_p10 |-> p10.val, rougeL_p90 |-> p90.val],
      lines |-> [count |-> Len(items),
                 rouge1_mean |-> Fmt3(m1.val), rouge2_mean |-> Fmt3(m2.val),
                 rougeL_mean |-> Fmt3(ml.val),
                 rougeL_p10 |-> Fmt3(p10.val), rougeL_p90 |-> Fmt3(p90.val),
                 rows |-> [x \in 1..Len(rows) |->
                             [difficulty |-> rows[x].difficulty, topic |-> rows[x].topic,
                              cnt |-> rows[x].cnt, rl_mean |-> rows[x].rl_mean]]]]

(***************************************************************************)
(* Files: absent, or holding the documents written to them.  Opening for   *)
(* writing ("w", Path.write_text) truncates.                               *)
(***************************************************************************)
NoFile == [exists |-> FALSE, docs |-> <<>>]

\* Faulty variant: the file opened for appending.
write_append(old, doc) == [exists |-> TRUE, docs |-> Append(old.docs, doc)]

write_text(old, doc) == [exists |-> TRUE, docs |-> <<doc>>]

\* if per_item_csv_path and per_item
CsvWanted_pathonly(path, items) == path # "None" /\ path # ""

CsvWanted(path, items) == path # "None" /\ path # "" /\ items # <<>>

CsvFieldnames == <<"id", "difficulty", "topic", "rouge1_f1", "rouge2_f1", "rougeL_f1">>

(***************************************************************************)
(* The input files of a run: sequences of lines.                           *)
(***************************************************************************)
T1 == <<"t", "1">>
T2 == <<"t", "2">>
Easy == <<"e", "a", "s", "y">>
Hard == <<"h", "a", "r", "d">>
Rent == <<"r", "e", "n", "t">>
Deposit == <<"d", "e", "p", "o", "s", "i", "t">>
A_B == <<"a", " ", "b">>
B == <<"b">>

TestCase(id, reference, difficulty, topic) ==
  [EmptyDict EXCEPT !["id"] = id, !["reference_answer"] = reference,
                    !["difficulty"] = difficulty, !["topic"] = topic]

Prediction(id, answer) ==
  [EmptyDict EXCEPT !["id"] = id, !["model_answer"] = answer]

Labels ==
  {<<JStr(Easy), JStr(Rent)>>, <<JStr(Hard), JStr(Deposit)>>, <<JAbsent, JNull>>,
   <<JNull, JStr(Rent)>>}

CleanTestCases ==
  {TestCase(JStr(T1), JStr(A_B), l[1], l[2]) : l \in Labels}
    \cup {TestCase(JStr(T2), JStr(B), l[1], l[2]) : l \in Labels}

\* Records that lack a required field.
DefectiveTestCases ==
  {TestCase(JAbsent, JStr(A_B), JStr(Easy), JStr(Rent)),
   TestCase(JStr(T1), JAbsent, JStr(Easy), JStr(Rent))}

CleanPredictions ==
  {Prediction(JStr(T1), JStr(A_B)), Prediction(JStr(T1), JStr(B)),
   Prediction(JStr(T2), JStr(A_B)), Prediction(JStr(T1), JAbsent)}

DefectivePredictions == {Prediction(JAbsent, JStr(A_B))}

TestLines ==
  {BlankLine, MalformedLine} \cup {JsonLine(o) : o \in CleanTestCases \cup DefectiveTestCases}

PredLines ==
  {BlankLine, MalformedLine} \cup {JsonLine(o) : o \in CleanPredictions \cup DefectivePredictions}

SeqsUpTo(S, m) == UNION {[1..k -> S] : k \in 0..m}

TestFiles == SeqsUpTo(TestLines, MaxTestLines)
PredFiles == SeqsUpTo(PredLines, MaxPredLines)

\* The command line: --test, --pred, --out (default "eval_report.md") and
\* --per_item_csv (default None).
TestPath == "tests.jsonl"
PredPath == "preds.jsonl"
OutPath == "eval_report.md"
CsvPaths == {"None", "per_item.csv"}

(***************************************************************************)
(* The state machine: a caller holding a reference and a candidate calls   *)
(* rouge_n(ref, pred, n) for n = 1..MaxN, then rouge_l_f1(ref, pred), then *)
(* rouge_l_f1(pred, ref) with the two texts swapped.                       *)
(***************************************************************************)
VARIABLES ref, pred, n, pc, r_n, r_l, r_ls

\* A command-line run of evaluate: its arguments and input files, its
\* position, its locals, the exception in flight, the output files, what
\* the process printed and its exit status; the number of the run and the
\* outputs of the run before it.
VARIABLES test_file, pred_file, per_item_csv_path, epc, tests, preds, t_idx,
          bucket_scores, overall_r1, overall_r2, overall_rl, per_item,
          raised, csv_file, report_file, stdout, stderr, exit_status,
          run, previous

mvars == <<ref, pred, n, pc, r_n, r_l, r_ls>>

inputs == <<test_file, pred_file, per_item_csv_path>>

locals == <<tests, preds, t_idx, bucket_scores, overall_r1, overall_r2, overall_rl, per_item>>

outputs == <<csv_file, report_file, stdout, stderr, exit_status>>

evars == <<inputs, epc, locals, raised, outputs, run, previous>>

\* The statistics of lines 50-62 applied to a ROUGE-L F1 series: the series,
\* the position, and the exception, mean and percentiles obtained.
VARIABLES rl_series, spc, stats

svars == <<rl_series, spc, stats>>

\* utils/user_auth.py: the file db/users.json, the callers that take steps,
\* each caller's position, call, copy of the file and last return value,
\* the number of calls made, and for each (role, username) the password of
\* the first register_user call that returned success.
VARIABLES users_db, active, upc, ucall, usnap, uret, ncalls, registered

uvars == <<users_db, active, upc, ucall, usnap, uret, ncalls, registered>>

vars == <<mvars, evars, svars, uvars>>

NotCalledN ==
  [exc |-> "not_called", precision |-> Zero, recall |-> Zero, f1 |-> Zero,
   overlap |-> 0, pred_total |-> 0, ref_total |-> 0]

NotCalledL ==
  [exc |-> "not_called", precision |-> Zero, recall |-> Zero, f1 |-> Zero,
   lcs |-> 0, pred_len |-> 0, ref_len |-> 0]

NoOutput == <<>>

FreshLocals ==
  /\ tests = <<>>
  /\ preds = NoPreds
  /\ t_idx = 1
  /\ bucket_scores = NoBuckets
  /\ overall_r1 = <<>>
  /\ overall_r2 = <<>>
  /\ overall_rl = <<>>
  /\ per_item = <<>>
  /\ raised = "none"

FreshProcess ==
  /\ stdout = NoOutput
  /\ stderr = NoOutput
  /\ exit_status = -1

NoPrevious == [report |-> NoFile, csv |-> NoFile, stdout |-> NoOutput, exit_status |-> -1]

\* No run of evaluate is under way.
EvalIdle ==
  /\ test_file = <<>>
  /\ pred_file = <<>>
  /\ per_item_csv_path = "None"
  /\ epc = "idle"
  /\ FreshLocals
  /\ FreshProcess
  /\ csv_file = NoFile
  /\ report_file = NoFile
  /\ run = 0
  /\ previous = NoPrevious

NoStats == [exc |-> "not_computed", mean |-> Zero, p10 |-> Zero, p90 |-> Zero]

StatsIdle ==
  /\ rl_series = <<>>
  /\ spc = "idle"
  /\ stats = NoStats

Callers == {"c1", "c2"}

Usernames == {"alice", "bob"}
Passwords == {"pw1", "pw2"}
ValidRoles == {"landlords", "tenants"}
Roles == ValidRoles \cup {"admins"}

\* db/users.json: missing, of size 0, or holding the JSON object users.
NoUsers == [r \in {} |-> <<>>]
MissingFile == [state |-> "missing", users |-> NoUsers]
EmptyFile == [state |-> "empty", users |-> NoUsers]
JsonFile(users) == [state |-> "json", users |-> users]

\* {"landlords": {}, "tenants": {}}
FreshUsers == [r \in ValidRoles |-> <<>>]

NoCall == [op |-> "none", username |-> "", password |-> "", role |-> "", email |-> ""]
NoReturn == [ok |-> FALSE, msg |-> "none"]
NeverRegistered == [key \in ValidRoles \X Usernames |-> "none"]

UsersIdle ==
  /\ users_db = MissingFile
  /\ active = {}
  /\ upc = [c \in Callers |-> "idle"]
  /\ ucall = [c \in Callers |-> NoCall]
  /\ usnap = [c \in Callers |-> NoUsers]
  /\ uret = [c \in Callers |-> NoReturn]
  /\ ncalls = 0
  /\ registered = NeverRegistered


Init ==
  /\ ref \in Texts
  /\ pred \in Texts
  /\ n = 1
  /\ pc = "rouge_n"
  /\ r_n = [k \in 1..MaxN |-> NotCalledN]
  /\ r_l = NotCalledL
  /\ r_ls = NotCalledL
  /\ EvalIdle
  /\ StatsIdle
  /\ UsersIdle

CallRougeN ==
  /\ pc = "rouge_n"
  /\ r_n' = [r_n EXCEPT ![n] = rouge_n(ref, pred, n)]
  /\ IF n < MaxN THEN n' = n + 1 /\ pc' = "rouge_n"
                 ELSE n' = n /\ pc' = "rouge_l"
  /\ UNCHANGED <<ref, pred, r_l, r_ls, evars, svars, uvars>>

CallRougeL ==
  /\ pc = "rouge_l"
  /\ r_l' = rouge_l_f1(ref, pred)
  /\ pc' = "rouge_l_swapped"
  /\ UNCHANGED <<ref, pred, n, r_n, r_ls, evars, svars, uvars>>

CallRougeLSwapped ==
  /\ pc = "rouge_l_swapped"
  /\ r_ls' = rouge_l_f1(pred, ref)
  /\ pc' = "done"
  /\ UNCHANGED <<ref, pred, n, r_n, r_l, evars, svars, uvars>>

Next == CallRougeN \/ CallRougeL \/ CallRougeLSwapped

Spec == Init /\ [][Next]_vars

(***************************************************************************)
(* The command-line run of evaluate, statement group by statement group.  *)
(***************************************************************************)
MaxRuns == 2

MetricsIdle ==
  /\ ref = None
  /\ pred = None
  /\ n = 1
  /\ pc = "idle"
  /\ r_n = [k \in 1..MaxN |-> NotCalledN]
  /\ r_l = NotCalledL
  /\ r_ls = NotCalledL

\* A per-item file left at the per-item path by something else.
StaleCsv == [exists |-> TRUE, docs |-> <<[fieldnames |-> <<>>, rows |-> <<>>]>>]

EvalInit ==
  /\ MetricsIdle
  /\ StatsIdle
  /\ UsersIdle
  /\ test_file \in TestFiles
  /\ pred_file \in PredFiles
  /\ per_item_csv_path \in CsvPaths
  /\ epc = "load_tests"
  /\ FreshLocals
  /\ FreshProcess
  /\ csv_file \in {NoFile, StaleCsv}
  /\ report_file = NoFile
  /\ run = 1
  /\ previous = NoPrevious

\* Line 11.
LoadTests ==
  /\ epc = "load_tests"
  /\ LET loaded == load_tests(test_file)
     IN IF loaded.exc # "none"
        THEN raised' = loaded.exc /\ epc' = "raised" /\ UNCHANGED tests
        ELSE tests' = loaded.val /\ epc' = "load_preds" /\ UNCHANGED raised
  /\ UNCHANGED <<mvars, svars, uvars, inputs, preds, t_idx, bucket_scores, overall_r1, overall_r2,
                 overall_rl, per_item, outputs, run, previous>>

\* Faulty variant: the report file is opened for writing before the
\* predictions are read.
LoadPreds_opensreport ==
  /\ epc = "load_preds"
  /\ report_file' = write_text(report_file, <<>>)
  /\ LET loaded == load_preds(pred_file)
     IN IF loaded.exc # "none"
        THEN raised' = loaded.exc /\ epc' = "raised" /\ UNCHANGED preds
        ELSE preds' = loaded.val /\ epc' = "score" /\ UNCHANGED raised
  /\ UNCHANGED <<mvars, svars, uvars, inputs, tests, t_idx, bucket_scores, overall_r1,
                 overall_r2, overall_rl, per_item, csv_file, stdout, stderr, exit_status,
                 run, previous>>

\* Lines 12-17.
LoadPreds ==
  /\ epc = "load_preds"
  /\ LET loaded == load_preds(pred_file)
     IN IF loaded.exc # "none"
        THEN raised' = loaded.exc /\ epc' = "raised" /\ UNCHANGED preds
        ELSE preds' = loaded.val /\ epc' = "score" /\ UNCHANGED raised
  /\ UNCHANGED <<mvars, svars, uvars, inputs, tests, t_idx, bucket_scores, overall_r1, overall_r2,
                 overall_rl, per_item, outputs, run, previous>>

\* Lines 23-41: one iteration of the loop over tests.
ScoreNext ==
  /\ epc = "score"
  /\ t_idx <= Len(tests)
  /\ LET scored == ScoreTest(tests[t_idx], preds)
     IN IF scored.exc # "none"
        THEN /\ raised' = scored.exc
             /\ epc' = "raised"
             /\ UNCHANGED <<t_idx, bucket_scores, overall_r1, overall_r2, overall_rl, per_item>>
        ELSE /\ overall_r1' = Append(overall_r1, scored.row.rouge1_f1)
             /\ overall_r2' = Append(overall_r2, scored.row.rouge2_f1)
             /\ overall_rl' = Append(overall_rl, scored.row.rougeL_f1)
             /\ bucket_scores' = BucketAppend(bucket_scores, scored.bkey, scored.row.rougeL_f1)
             /\ per_item' = Append(per_item, scored.row)
             /\ t_idx' = t_idx + 1
             /\ UNCHANGED <<epc, raised>>
  /\ UNCHANGED <<mvars, svars, uvars, inputs, tests, preds, outputs, run, previous>>

\* Lines 43-48, reached when the loop is over.
WritePerItemCsv ==
  /\ epc = "score"
  /\ t_idx > Len(tests)
  /\ csv_file' = IF CsvWanted(per_item_csv_path, per_item)
                 THEN write_text(csv_file, [fieldnames |-> CsvFieldnames, rows |-> per_item])
                 ELSE csv_file
  /\ epc' = "report"
  /\ UNCHANGED <<mvars, svars, uvars, inputs, locals, raised, report_file, stdout, stderr, exit_status,
                 run, previous>>

\* Lines 50-84.
WriteReport ==
  /\ epc = "report"
  /\ LET built == BuildReport(per_item, overall_r1, overall_r2, overall_rl, bucket_scores)
     IN IF built.exc # "none"
        THEN raised' = built.exc /\ epc' = "raised" /\ UNCHANGED report_file
        ELSE /\ report_file' = write_text(report_file, built.lines)
             /\ epc' = "return"
             /\ UNCHANGED raised
  /\ UNCHANGED <<mvars, svars, uvars, inputs, locals, csv_file, stdout, stderr, exit_status, run, previous>>

\* Lines 92-94: out = evaluate(...); print(f"Report written to: {out}");
\* the interpreter then exits with status 0.
PrintReportPath ==
  /\ epc = "return"
  /\ stdout' = <<"Report written to: ", OutPath>>
  /\ exit_status' = 0
  /\ epc' = "exited"
  /\ UNCHANGED <<mvars, svars, uvars, inputs, locals, raised, csv_file, report_file, stderr, run, previous>>

\* What the traceback of an uncaught exception says about the input: a
\* JSONDecodeError carries the line number inside the document handed to
\* json.loads, which is one line of the file, and no file name.
Traceback(e) ==
  [type |-> e, path |-> "", lineno |-> IF e = "JSONDecodeError" THEN 1 ELSE 0]

\* No handler anywhere (lines 10-94): the exception reaches the interpreter,
\* which prints the traceback and exits with status 1.
Uncaught ==
  /\ epc = "raised"
  /\ stderr' = Traceback(raised)
  /\ exit_status' = 1
  /\ epc' = "exited"
  /\ UNCHANGED <<mvars, svars, uvars, inputs, locals, raised, csv_file, report_file, stdout, run, previous>>

\* The same command line is run again on the same inputs; the files of the
\* run before are still there.
Rerun ==
  /\ epc = "exited"
  /\ run < MaxRuns
  /\ previous' = [report |-> report_file, csv |-> csv_file,
                  stdout |-> stdout, exit_status |-> exit_status]
  /\ run' = run + 1
  /\ epc' = "load_tests"
  /\ tests' = <<>>
  /\ preds' = NoPreds
  /\ t_idx' = 1
  /\ bucket_scores' = NoBuckets
  /\ overall_r1' = <<>>
  /\ overall_r2' = <<>>
  /\ overall_rl' = <<>>
  /\ per_item' = <<>>
  /\ raised' = "none"
  /\ stdout' = NoOutput
  /\ stderr' = NoOutput
  /\ exit_status' = -1
  /\ UNCHANGED <<mvars, svars, uvars, inputs, csv_file, report_file>>

EvalNext ==
  \/ LoadTests
  \/ LoadPreds
  \/ ScoreNext
  \/ WritePerItemCsv
  \/ WriteReport
  \/ PrintReportPath
  \/ Uncaught
  \/ Rerun

SpecEval == EvalInit /\ [][EvalNext]_vars

(***************************************************************************)
(* Vocabulary of the properties.                                           *)
(***************************************************************************)
CalledN(k) == r_n[k].exc # "not_called"
CalledL == r_l.exc # "not_called"
CalledLS == r_ls.exc # "not_called"

NonEmptyStr(t) == ~t.isNone /\ t.chars # <<>>
EmptyOrNone(t) == t.isNone \/ t.chars = <<>>

AllOne(d) == d.exc = "none" /\ d.precision = One /\ d.recall = One /\ d.f1 = One
AllZero(d) == d.exc = "none" /\ d.precision = Zero /\ d.recall = Zero /\ d.f1 = Zero
SameScores(d, e) ==
  d.exc = e.exc /\ d.precision = e.precision /\ d.recall = e.recall /\ d.f1 = e.f1

InUnit(x) == RLe(Zero, x) /\ RLe(x, One)

\* The score struct of a frame is well formed: see C5.
\* f1 * (p + r) = 2 * p * r states f1 = 2pr/(p+r) without dividing.
WellFormed(d) ==
  /\ InUnit(d.precision) /\ InUnit(d.recall) /\ InUnit(d.f1)
  /\ (d.f1 = Zero <=> RAdd(d.precision, d.recall) = Zero)
  /\ RMul(d.f1, RAdd(d.precision, d.recall))
       = RMul(IntR(2), RMul(d.precision, d.recall))

(***************************************************************************)
(* C1.  Identity of ROUGE-N: for a non-empty text t and 1 <= n <= the      *)
(* number of tokens of t, rouge_n(t, t, n) returns precision = recall =    *)
(* f1 = 1.0.                                                               *)
(***************************************************************************)
C1_RougeNIdentity ==
  \A k \in 1..MaxN :
    (CalledN(k) /\ ref = pred /\ NonEmptyStr(ref) /\ k <= Len(_tokenize(ref)))
      => AllOne(r_n[k])

C1_Witness ==
  /\ pc = "done" /\ ref = Str(ABA) /\ pred = Str(ABA)
  /\ \A k \in 1..3 : AllOne(r_n[k])

(***************************************************************************)
(* C2.  Identity of ROUGE-L.  As stated: for every str t of length >= 1,   *)
(* whatever its characters, rouge_l_f1(t, t) returns precision = recall =  *)
(* f1 = 1.0.  This fails for a text made of whitespace only.               *)
(***************************************************************************)
C2_AnyNonEmptyStringScoresOne ==
  (CalledL /\ ref = pred /\ NonEmptyStr(ref)) => AllOne(r_l)

\* C2 as amended: for every text t that tokenizes to at least one token,
\* rouge_l_f1(t, t) returns precision = recall = f1 = 1.0; a text that
\* tokenizes to no token (None, "", whitespace only) scores 0.0 against itself.
C2_RougeLIdentity ==
  (CalledL /\ ref = pred)
    => IF Len(_tokenize(ref)) >= 1 THEN AllOne(r_l) ELSE AllZero(r_l)

C2_Witness ==
  /\ CalledL /\ ref = Str(TabSeparated) /\ pred = ref
  /\ r_l.lcs = 3 /\ AllOne(r_l)

(***************************************************************************)
(* C3.  Swapping reference and candidate in ROUGE-L swaps precision and    *)
(* recall and leaves f1 and the LCS length unchanged.                      *)
(***************************************************************************)
C3_RougeLSwap ==
  CalledLS =>
    /\ r_l.exc = "none" /\ r_ls.exc = "none"
    /\ r_l.precision = r_ls.recall
    /\ r_l.recall = r_ls.precision
    /\ r_l.f1 = r_ls.f1
    /\ r_l.lcs = r_ls.lcs

C3_Witness ==
  /\ pc = "done" /\ r_l.lcs >= 1
  /\ r_l.precision # r_l.recall
  /\ r_ls.precision = r_l.recall

(***************************************************************************)
(* C4.  Clipped-count bound of ROUGE-N: the overlap is at most the number  *)
(* of reference n-grams and at most the number of candidate n-grams, so    *)
(* precision and recall lie in [0,1]; a candidate n-gram contributes at    *)
(* most its count in the reference.                                        *)
(***************************************************************************)
\* Number of positions of the n-gram sequence s holding g.
Occurrences(s, g) == Cardinality({i \in 1..Len(s) : s[i] = g})

RECURSIVE SumOfSet(_, _)
SumOfSet(f, S) ==
  IF S = {} THEN 0
  ELSE LET x == CHOOSE y \in S : TRUE IN f[x] + SumOfSet(f, S \ {x})

\* Sum, over the distinct candidate n-grams, of their counts in the reference.
ReferenceCountOfCandidateNgrams(k) ==
  LET rs == _ngrams(_tokenize(ref), k)
      ps == _ngrams(_tokenize(pred), k)
      D == {ps[i] : i \in 1..Len(ps)}
  IN SumOfSet([g \in D |-> Occurrences(rs, g)], D)

C4_ClippedOverlapBound ==
  \A k \in 1..MaxN :
    CalledN(k) =>
      /\ r_n[k].overlap <= r_n[k].ref_total
      /\ r_n[k].overlap <= r_n[k].pred_total
      /\ r_n[k].overlap <= ReferenceCountOfCandidateNgrams(k)
      /\ InUnit(r_n[k].precision)
      /\ InUnit(r_n[k].recall)

\* candidate "a a a" against reference "a": the unigram a counts once.
C4_Witness ==
  /\ CalledN(1)
  /\ ref = Str(<<"a">>) /\ pred = Str(<<"a", " ", "a", " ", "a">>)
  /\ r_n[1].overlap = 1 /\ r_n[1].pred_total = 3 /\ r_n[1].ref_total = 1

(***************************************************************************)
(* C5.  Every score struct returned by rouge_n and rouge_l_f1 has          *)
(* precision, recall and f1 in [0,1], f1 = 0 exactly when precision +      *)
(* recall = 0, and otherwise f1 = 2*precision*recall/(precision+recall).   *)
(***************************************************************************)
C5_ScoreStructWellFormed ==
  /\ \A k \in 1..MaxN : CalledN(k) => WellFormed(r_n[k])
  /\ CalledL => WellFormed(r_l)
  /\ CalledLS => WellFormed(r_ls)

\* precision 1/2, recall 1, f1 2/3, from rouge_n and from rouge_l_f1.
C5_Witness ==
  /\ pc = "done"
  /\ r_n[1].precision = <<1, 2>> /\ r_n[1].recall = One /\ r_n[1].f1 = <<2, 3>>
  /\ r_l.precision = <<1, 2>> /\ r_l.recall = One /\ r_l.f1 = <<2, 3>>

(***************************************************************************)
(* C6.  With reference and candidate each None or the empty string, in any *)
(* combination, rouge_n (any n >= 1) and rouge_l_f1 raise nothing, no      *)
(* division by zero among it, and return precision = recall = f1 = 0.0.    *)
(***************************************************************************)
C6_EmptyInputsScoreZero ==
  (EmptyOrNone(ref) /\ EmptyOrNone(pred)) =>
    /\ \A k \in 1..MaxN : CalledN(k) => AllZero(r_n[k])
    /\ CalledL => AllZero(r_l)
    /\ CalledLS => AllZero(r_ls)

C6_Witness ==
  /\ pc = "done" /\ ref = None /\ pred = Str(<<>>)
  /\ \A k \in 1..MaxN : r_n[k].pred_total = 0 /\ r_n[k].ref_total = 0
  /\ r_l.pred_len = 0 /\ r_l.ref_len = 0

(***************************************************************************)
(* C7.  rouge_n returns without error for every n >= 1 and every pair of   *)
(* texts, and returns precision = recall = f1 = 0.0 whenever the reference *)
(* or the candidate has fewer than n tokens.                               *)
(***************************************************************************)
C7_FewerThanNTokensScoreZero ==
  \A k \in 1..MaxN :
    CalledN(k) =>
      /\ r_n[k].exc = "none"
      /\ (Len(_tokenize(ref)) < k \/ Len(_tokenize(pred)) < k) => AllZero(r_n[k])

\* "a b" against itself with n = 3: both texts have fewer than n tokens.
C7_Witness ==
  /\ CalledN(3)
  /\ ref = Str(<<"a", " ", "b">>) /\ pred = ref
  /\ AllOne(r_n[2]) /\ AllZero(r_n[3])

(***************************************************************************)
(* C8.  ROUGE-2 F1 <= ROUGE-1 F1 is not guaranteed: for the reference      *)
(* "b a b" and the candidate "a b a" the f1 of rouge_n with n = 2 (1.0) is *)
(* strictly greater than the f1 with n = 1 (2/3).                          *)
(***************************************************************************)
C8_Rouge2CanExceedRouge1 ==
  (ref = Str(BAB) /\ pred = Str(ABA) /\ CalledN(2)) =>
    /\ r_n[1].exc = "none" /\ r_n[2].exc = "none"
    /\ RLt(r_n[1].f1, r_n[2].f1)

C8_Witness ==
  /\ CalledN(2)
  /\ r_n[1].exc = "none" /\ r_n[2].exc = "none"
  /\ RLt(r_n[1].f1, r_n[2].f1)

(***************************************************************************)
(* C9.  Case insensitivity: changing the case of letters of the reference  *)
(* or of the candidate changes none of precision, recall, f1 of rouge_n    *)
(* (any n) and of rouge_l_f1; rouge_n("The Cat", "the cat", 1) is 1.0 in   *)
(* all three.                                                              *)
(***************************************************************************)
UpperOf ==
  [a |-> "A", b |-> "B", c |-> "C", d |-> "D", e |-> "E", f |-> "F", g |-> "G",
   h |-> "H", i |-> "I", j |-> "J", k |-> "K", l |-> "L", m |-> "M", n |-> "N",
   o |-> "O", p |-> "P", q |-> "Q", r |-> "R", s |-> "S", t |-> "T", u |-> "U",
   v |-> "V", w |-> "W", x |-> "X", y |-> "Y", z |-> "Z"]

IsUpper(c) == \E x \in DOMAIN UpperOf : UpperOf[x] = c
IsLower(c) == c \in DOMAIN UpperOf
ToLower(c) == CHOOSE x \in DOMAIN UpperOf : UpperOf[x] = c

\* The character with its case changed; a character without case is kept.
OtherCase(c) == IF IsLower(c) THEN UpperOf[c] ELSE IF IsUpper(c) THEN ToLower(c) ELSE c

\* s with the case of the characters at the positions of P changed.
Recase(s, P) == [i \in 1..Len(s) |-> IF i \in P THEN OtherCase(s[i]) ELSE s[i]]

\* The texts got from t by changing the case of one character, of every
\* character, of every lower-case letter, of every upper-case letter.
CaseVariants(t) ==
  IF t.isNone THEN {t}
  ELSE LET s == t.chars
           whole == {1..Len(s), {i \in 1..Len(s) : IsLower(s[i])},
                     {i \in 1..Len(s) : IsUpper(s[i])}}
       IN {Str(Recase(s, P)) : P \in {{i} : i \in 1..Len(s)} \cup whole}

\* The same change (all, all lower-case, all upper-case) applied to both texts.
BothRecased ==
  IF ref.isNone \/ pred.isNone THEN {}
  ELSE {<<Str(Recase(ref.chars, 1..Len(ref.chars))), Str(Recase(pred.chars, 1..Len(pred.chars)))>>,
        <<Str(Recase(ref.chars, {i \in 1..Len(ref.chars) : IsLower(ref.chars[i])})),
          Str(Recase(pred.chars, {i \in 1..Len(pred.chars) : IsLower(pred.chars[i])}))>>,
        <<Str(Recase(ref.chars, {i \in 1..Len(ref.chars) : IsUpper(ref.chars[i])})),
          Str(Recase(pred.chars, {i \in 1..Len(pred.chars) : IsUpper(pred.chars[i])}))>>}

RecasedPairs ==
  {<<u, pred>> : u \in CaseVariants(ref)} \cup {<<ref, v>> : v \in CaseVariants(pred)}
    \cup BothRecased

ReferenceOverlap(rs, ps) ==
  LET D == {ps[i] : i \in 1..Len(ps)}
  IN SumOfSet([g \in D |-> Min(Occurrences(ps, g), Occurrences(rs, g))], D)

\* x = num / den, or x = 0 when den = 0.
IsRatio(x, num, den) ==
  IF den = 0 THEN x = Zero ELSE x[2] > 0 /\ x[1] * den = num * x[2]

C10_RougeNReferenceDefinition ==
  /\ \A k \in 1..MaxN :
       CalledN(k) =>
         LET rs == _ngrams(_tokenize(ref), k)
             ps == _ngrams(_tokenize(pred), k)
         IN /\ r_n[k].exc = "none"
            /\ r_n[k].overlap = ReferenceOverlap(rs, ps)
            /\ IsRatio(r_n[k].precision, ReferenceOverlap(rs, ps), Len(ps))
            /\ IsRatio(r_n[k].recall, ReferenceOverlap(rs, ps), Len(rs))
  /\ (ref = Str(RefRent) /\ pred = Str(PredRent) /\ CalledN(1)) =>
       /\ r_n[1].overlap = 3
       /\ r_n[1].precision = <<1, 2>> /\ r_n[1].recall = <<1, 2>> /\ r_n[1].f1 = <<1, 2>>

C10_Witness ==
  /\ CalledN(1) /\ ref = Str(RefRent) /\ pred = Str(PredRent)
  /\ r_n[1].overlap = 3 /\ r_n[1].pred_total = 6 /\ r_n[1].ref_total = 6

(***************************************************************************)
(* C11.  _lcs_length(xs, ys), the rolling-row dynamic program, returns the *)
(* length of a longest common subsequence of xs and ys, as the standard    *)
(* two-dimensional recurrence gives it; 0 when either sequence is empty.   *)
(***************************************************************************)
\* The two-dimensional recurrence on the prefixes xs[1..i], ys[1..j].
RECURSIVE LcsRecurrence(_, _, _, _)
LcsRecurrence(xs, ys, i, j) ==
  IF i = 0 \/ j = 0 THEN 0
  ELSE IF xs[i] = ys[j] THEN LcsRecurrence(xs, ys, i - 1, j - 1) + 1
  ELSE Max(LcsRecurrence(xs, ys, i - 1, j), LcsRecurrence(xs, ys, i, j - 1))

\* The elements of xs at the positions of P, in order.
RECURSIVE Pick(_, _, _)
Pick(xs, P, i) ==
  IF i > Len(xs) THEN <<>>
  ELSE (IF i \in P THEN <<xs[i]>> ELSE <<>>) \o Pick(xs, P, i + 1)

\* zs is a subsequence of ys from position j on.
RECURSIVE IsSubsequence(_, _, _)
IsSubsequence(zs, ys, j) ==
  IF zs = <<>> THEN TRUE
  ELSE IF j > Len(ys) THEN FALSE
  ELSE IF Head(zs) = ys[j] THEN IsSubsequence(Tail(zs), ys, j + 1)
  ELSE IsSubsequence(zs, ys, j + 1)

\* k is the greatest length of a subsequence of xs that is one of ys.
IsLongestCommonLength(xs, ys, k) ==
  LET common == {P \in SUBSET (1..Len(xs)) : IsSubsequence(Pick(xs, P, 1), ys, 1)}
  IN /\ \E P \in common : Cardinality(P) = k
     /\ \A P \in common : Cardinality(P) <= k

C11_LcsLengthCorrect ==
  /\ CalledL =>
       LET xs == _tokenize(ref)
           ys == _tokenize(pred)
       IN /\ r_l.lcs = LcsRecurrence(xs, ys, Len(xs), Len(ys))
          /\ IsLongestCommonLength(xs, ys, r_l.lcs)
          /\ (xs = <<>> \/ ys = <<>>) => r_l.lcs = 0
  /\ CalledLS =>
       LET xs == _tokenize(pred)
           ys == _tokenize(ref)
       IN r_ls.lcs = LcsRecurrence(xs, ys, Len(xs), Len(ys))

\* "a b a" against "b a b": two longest common subsequences, a b and b a.
C11_Witness ==
  /\ CalledL /\ ref = Str(ABA) /\ pred = Str(BAB)
  /\ r_l.lcs = 2


(***************************************************************************)
(* Lines 50-62 on their own: the statistics of a ROUGE-L F1 series.        *)
(***************************************************************************)
MaxSeries == 10

Scores == {<<1, 2>>, One}

Series == SeqsUpTo(Scores, MaxSeries)

StatsInit ==
  /\ MetricsIdle
  /\ EvalIdle
  /\ UsersIdle
  /\ rl_series \in Series
  /\ spc = "stats"
  /\ stats = NoStats

\* mean_safe(overall_rl), rl_sorted, p10 and p90 of lines 50-53.
ComputeStats ==
  /\ spc = "stats"
  /\ LET built == BuildReport(rl_series, rl_series, rl_series, rl_series, NoBuckets)
     IN stats' = [exc |-> built.exc, mean |-> built.overall.rougeL_mean,
                  p10 |-> built.overall.rougeL_p10, p90 |-> built.overall.rougeL_p90]
  /\ spc' = "done"
  /\ UNCHANGED <<mvars, evars, uvars, rl_series>>

StatsNext == ComputeStats

SpecStats == StatsInit /\ [][StatsNext]_vars

(***************************************************************************)
(* utils/user_auth.py: register_user and authenticate_user on the file     *)
(* db/users.json.  A call is a series of steps on the file: the test and   *)
(* the write of _init_user_db, the read of the whole file, and for a       *)
(* successful registration the write of the whole file.                    *)
(***************************************************************************)
MaxCalls == 3

\* hashlib.sha256(p.encode("utf-8")).hexdigest(): distinct passwords of the
\* model have distinct digests.
_hash_password(pw) == <<"sha256", pw>>

\* not os.path.exists(USER_DB_PATH) or os.path.getsize(USER_DB_PATH) == 0
NeedsInit(db) == db.state = "missing" \/ db.state = "empty"

\* json.load(f) of the file.
json_load(db) ==
  IF db.state = "json" THEN [exc |-> "none", val |-> db.users]
  ELSE IF db.state = "empty" THEN [exc |-> "JSONDecodeError", val |-> NoUsers]
  ELSE [exc |-> "FileNotFoundError", val |-> NoUsers]

\* users[role][username] = {"password": ..., "email": ...}
WithUser(users, role, username, rec) ==
  [r \in DOMAIN users |->
     IF r = role
     THEN [u \in DOMAIN users[r] \cup {username} |-> IF u = username THEN rec ELSE users[r][u]]
     ELSE users[r]]

\* Faulty variant: no test of the username.
register_decide_overwrite(users, call) ==
  IF call.role \notin DOMAIN users
  THEN [ok |-> FALSE, msg |-> "invalid role", write |-> FALSE, users |-> users]
  ELSE [ok |-> TRUE, msg |-> "registered", write |-> TRUE,
        users |-> WithUser(users, call.role, call.username,
                           [password |-> _hash_password(call.password), email |-> call.email])]

\* Lines 17-21 of register_user on the users read from the file: the value
\* returned, and the users written back if any.
register_decide(users, call) ==
  IF call.role \notin DOMAIN users
  THEN [ok |-> FALSE, msg |-> "invalid role", write |-> FALSE, users |-> users]
  ELSE IF call.username \in DOMAIN users[call.role]
  THEN [ok |-> FALSE, msg |-> "username exists", write |-> FALSE, users |-> users]
  ELSE [ok |-> TRUE, msg |-> "registered", write |-> TRUE,
        users |-> WithUser(users, call.role, call.username,
                           [password |-> _hash_password(call.password), email |-> call.email])]

\* Lines 26-29 of authenticate_user.
authenticate_decide(users, call) ==
  IF call.role \notin DOMAIN users THEN [ok |-> FALSE, msg |-> "invalid role"]
  ELSE IF call.username \notin DOMAIN users[call.role] THEN [ok |-> FALSE, msg |-> "no such user"]
  ELSE IF users[call.role][call.username].password # _hash_password(call.password)
  THEN [ok |-> FALSE, msg |-> "wrong password"]
  ELSE [ok |-> TRUE, msg |-> "logged in"]

UsersInit ==
  /\ MetricsIdle
  /\ EvalIdle
  /\ StatsIdle
  /\ users_db \in {MissingFile, EmptyFile, JsonFile(FreshUsers)}
  /\ upc = [c \in Callers |-> "idle"]
  /\ ucall = [c \in Callers |-> NoCall]
  /\ usnap = [c \in Callers |-> NoUsers]
  /\ uret = [c \in Callers |-> NoReturn]
  /\ ncalls = 0
  /\ registered = NeverRegistered

\* One caller: the calls follow one another.
SequentialInit == UsersInit /\ active = {"c1"}

\* Two callers (two sessions of the web application) at once.
ConcurrentInit == UsersInit /\ active = Callers

\* A call begins: _init_user_db tests the file (lines 6-7).
Call(c) ==
  /\ upc[c] \in {"idle", "returned"}
  /\ ncalls < MaxCalls
  /\ \E op \in {"register_user", "authenticate_user"}, u \in Usernames,
        pw \in Passwords, role \in Roles :
       ucall' = [ucall EXCEPT ![c] = [op |-> op, username |-> u, password |-> pw,
                                      role |-> role, email |-> ""]]
  /\ ncalls' = ncalls + 1
  /\ upc' = [upc EXCEPT ![c] = IF NeedsInit(users_db) THEN "init_write" ELSE "read"]
  /\ uret' = [uret EXCEPT ![c] = NoReturn]
  /\ usnap' = [usnap EXCEPT ![c] = NoUsers]
  /\ UNCHANGED <<mvars, evars, svars, users_db, active, registered>>

\* Lines 8-9: the file is written with the two empty roles.
InitWrite(c) ==
  /\ upc[c] = "init_write"
  /\ users_db' = JsonFile(FreshUsers)
  /\ upc' = [upc EXCEPT ![c] = "read"]
  /\ UNCHANGED <<mvars, evars, svars, active, ucall, usnap, uret, ncalls, registered>>

\* Lines 16 and 25: users = json.load(f).
ReadUsers(c) ==
  /\ upc[c] = "read"
  /\ LET loaded == json_load(users_db)
     IN IF loaded.exc # "none"
        THEN /\ uret' = [uret EXCEPT ![c] = [ok |-> FALSE, msg |-> loaded.exc]]
             /\ upc' = [upc EXCEPT ![c] = "raised"]
             /\ UNCHANGED usnap
        ELSE /\ usnap' = [usnap EXCEPT ![c] = loaded.val]
             /\ upc' = [upc EXCEPT ![c] = "decide"]
             /\ UNCHANGED uret
  /\ UNCHANGED <<mvars, evars, svars, users_db, active, ucall, ncalls, registered>>

\* Lines 17-21: the tests, the write of the file and the return.
RegisterReturn(c) ==
  /\ upc[c] = "decide"
  /\ ucall[c].op = "register_user"
  /\ LET decided == register_decide(usnap[c], ucall[c])
         key == <<ucall[c].role, ucall[c].username>>
     IN /\ users_db' = IF decided.write THEN JsonFile(decided.users) ELSE users_db
        /\ uret' = [uret EXCEPT ![c] = [ok |-> decided.ok, msg |-> decided.msg]]
        /\ registered' = IF decided.ok /\ registered[key] = "none"
                         THEN [registered EXCEPT ![key] = ucall[c].password]
                         ELSE registered
  /\ upc' = [upc EXCEPT ![c] = "returned"]
  /\ UNCHANGED <<mvars, evars, svars, active, ucall, usnap, ncalls>>

\* Lines 26-29.
AuthenticateReturn(c) ==
  /\ upc[c] = "decide"
  /\ ucall[c].op = "authenticate_user"
  /\ uret' = [uret EXCEPT ![c] = authenticate_decide(usnap[c], ucall[c])]
  /\ upc' = [upc EXCEPT ![c] = "returned"]
  /\ UNCHANGED <<mvars, evars, svars, users_db, active, ucall, usnap, ncalls, registered>>

UsersNext ==
  \E c \in active :
     \/ Call(c)
     \/ InitWrite(c)
     \/ ReadUsers(c)
     \/ RegisterReturn(c)
     \/ AuthenticateReturn(c)

SpecUsers == SequentialInit /\ [][UsersNext]_vars

SpecUsersConcurrent == ConcurrentInit /\ [][UsersNext]_vars

(***************************************************************************)
(* Vocabulary for the claims about a run of evaluate, stated on the input  *)
(* files rather than on the locals computed from them.                     *)
(***************************************************************************)
\* The non-blank lines of a file, in order.
RECURSIVE RecordLines(_)
RecordLines(f) ==
  IF f = <<>> THEN <<>>
  ELSE IF Head(f).kind = "blank" THEN RecordLines(Tail(f))
  ELSE <<Head(f)>> \o RecordLines(Tail(f))

AllParse(f) == \A q \in 1..Len(f) : f[q].kind # "malformed"

\* Every record has the fields the code subscripts.
RequiredFields(f, fields) ==
  \A q \in 1..Len(f) : f[q].kind = "json" => \A fld \in fields : f[q].obj[fld].t # "absent"

InputsLoad ==
  /\ AllParse(test_file) /\ AllParse(pred_file)
  /\ RequiredFields(pred_file, {"id"})

InputsClean ==
  /\ InputsLoad
  /\ RequiredFields(test_file, {"id", "reference_answer"})

\* The run got through the scoring loop.
Scored == epc \in {"report", "return", "exited"} /\ raised = "none"

\* The run ended by returning from evaluate and printing.
Succeeded == epc = "exited" /\ exit_status = 0

Failed == epc = "exited" /\ exit_status # 0

\* The q-th test record of the test file.
TestRecord(q) == RecordLines(test_file)[q].obj

\* No record of the predictions file has the id of the test record tc.
Unmatched(tc) ==
  \A q \in 1..Len(pred_file) :
     pred_file[q].kind = "json" => pred_file[q].obj["id"] # tc["id"]

\* The label a test record is filed under.
LabelOf(tc, fld) == IF tc[fld].t \in {"absent", "null"} THEN JStr(Unknown) ELSE tc[fld]

BucketOf(tc) == <<LabelOf(tc, "difficulty"), LabelOf(tc, "topic")>>

\* The positions of the scored test records filed under key.
Members(key) == {q \in 1..Len(per_item) : BucketOf(TestRecord(q)) = key}

ZeroScores(row) == row.rouge1_f1 = Zero /\ row.rouge2_f1 = Zero /\ row.rougeL_f1 = Zero

(***************************************************************************)
(* C12.  A test case whose id has no matching prediction is never an      *)
(* error: it is scored against the empty candidate, so with a non-empty    *)
(* reference its three F1 scores are 0.0; it still yields a per-item row   *)
(* and is counted in the totals and in its bucket.                         *)
(***************************************************************************)
C12_MissingPredictionScoresZero ==
  /\ InputsClean => raised = "none"
  /\ \A q \in 1..Len(per_item) :
       Unmatched(TestRecord(q))
         => /\ per_item[q].id = TestRecord(q)["id"]
            /\ NonEmptyStr(ToText(TestRecord(q)["reference_answer"])) => ZeroScores(per_item[q])
            /\ Len(overall_rl) >= q /\ overall_rl[q] = Zero
            /\ BucketOf(TestRecord(q)) \in DOMAIN bucket_scores
            /\ Len(bucket_scores[BucketOf(TestRecord(q))])
                 = Cardinality(Members(BucketOf(TestRecord(q))))
  /\ Scored => Len(per_item) = Len(RecordLines(test_file))

C12_Witness ==
  /\ Succeeded
  /\ Len(per_item) = 2
  /\ ~Unmatched(TestRecord(1))
  /\ Unmatched(TestRecord(2))
  /\ ZeroScores(per_item[2])
  /\ report_file.exists /\ report_file.docs[1].count = 2


(***************************************************************************)
(* C13.  When several records of the predictions input have the same id,   *)
(* the one that appears last is the one every test case with that id is    *)
(* scored against; the earlier ones have no effect, and duplicates are     *)
(* never rejected.                                                         *)
(***************************************************************************)
\* The positions of the prediction records with the id of tc.
Matches(tc) ==
  {q \in 1..Len(pred_file) : pred_file[q].kind = "json" /\ pred_file[q].obj["id"] = tc["id"]}

LastMatch(tc) ==
  pred_file[CHOOSE q \in Matches(tc) : \A q2 \in Matches(tc) : q2 <= q].obj

AnswerOf(p) == ToText(IF p["model_answer"].t = "absent" THEN JStr(<<>>) ELSE p["model_answer"])

ScoredAgainst(row, tc, cand) ==
  /\ row.rouge1_f1 = rouge_n(ToText(tc["reference_answer"]), cand, 1).f1
  /\ row.rouge2_f1 = rouge_n(ToText(tc["reference_answer"]), cand, 2).f1
  /\ row.rougeL_f1 = rouge_l_f1(ToText(tc["reference_answer"]), cand).f1

HasDuplicateIds ==
  \E q1, q2 \in 1..Len(pred_file) :
     /\ q1 < q2
     /\ pred_file[q1].kind = "json" /\ pred_file[q2].kind = "json"
     /\ pred_file[q1].obj["id"] = pred_file[q2].obj["id"]

C13_LastPredictionWins ==
  /\ HasDuplicateIds /\ InputsClean => raised = "none"
  /\ epc \in {"score", "report", "return", "exited"} /\ raised = "none"
       => \A q \in 1..Len(pred_file) :
            pred_file[q].kind = "json"
              => /\ pred_file[q].obj["id"] \in DOMAIN preds
                 /\ preds[pred_file[q].obj["id"]] = LastMatch(pred_file[q].obj)
  /\ \A q \in 1..Len(per_item) :
       ~Unmatched(TestRecord(q))
         => ScoredAgainst(per_item[q], TestRecord(q), AnswerOf(LastMatch(TestRecord(q))))

C13_Witness ==
  /\ Succeeded
  /\ pred_file = <<JsonLine(Prediction(JStr(T1), JStr(B))),
                   JsonLine(Prediction(JStr(T1), JStr(A_B)))>>
  /\ Len(per_item) = 1
  /\ per_item[1].id = JStr(T1)
  /\ per_item[1].rougeL_f1 = One


(***************************************************************************)
(* C14.  Test cases are scored in input order, one per-item row per test   *)
(* record: the i-th row of the per-item output and the i-th entry of each  *)
(* F1 series belong to the i-th non-blank line of the test input, whatever *)
(* the order of the predictions input.                                     *)
(***************************************************************************)
CandidateFor(tc) == IF Unmatched(tc) THEN Str(<<>>) ELSE AnswerOf(LastMatch(tc))

RowBelongsTo(row, tc) ==
  /\ row.id = tc["id"]
  /\ row.difficulty = LabelOf(tc, "difficulty")
  /\ row.topic = LabelOf(tc, "topic")
  /\ ScoredAgainst(row, tc, CandidateFor(tc))

C14_RowsInTestOrder ==
  /\ Len(per_item) <= Len(RecordLines(test_file))
  /\ Len(overall_r1) = Len(per_item)
  /\ Len(overall_r2) = Len(per_item)
  /\ Len(overall_rl) = Len(per_item)
  /\ \A q \in 1..Len(per_item) :
       /\ RowBelongsTo(per_item[q], TestRecord(q))
       /\ overall_r1[q] = per_item[q].rouge1_f1
       /\ overall_r2[q] = per_item[q].rouge2_f1
       /\ overall_rl[q] = per_item[q].rougeL_f1
  /\ Scored => Len(per_item) = Len(RecordLines(test_file))
  /\ Scored /\ per_item_csv_path # "None" /\ per_item # <<>>
       => /\ csv_file.exists
          /\ Len(csv_file.docs[1].rows) = Len(RecordLines(test_file))
          /\ \A q \in 1..Len(per_item) :
               RowBelongsTo(csv_file.docs[1].rows[q], TestRecord(q))

C14_Witness ==
  /\ Succeeded
  /\ test_file = <<JsonLine(TestCase(JStr(T2), JStr(B), JStr(Easy), JStr(Rent))),
                   JsonLine(TestCase(JStr(T1), JStr(A_B), JStr(Easy), JStr(Rent)))>>
  /\ pred_file = <<JsonLine(Prediction(JStr(T1), JStr(A_B))),
                   JsonLine(Prediction(JStr(T2), JStr(A_B)))>>
  /\ csv_file.exists
  /\ csv_file.docs[1].rows[1].id = JStr(T2)
  /\ csv_file.docs[1].rows[2].id = JStr(T1)
  /\ overall_rl = <<<<2, 3>>, One>>


(***************************************************************************)
(* C15.  The per-item file is written if and only if a per-item path is    *)
(* configured and at least one test case was scored; with no path, or      *)
(* with no scored item, no per-item file is created or modified, and the   *)
(* report is written all the same.                                         *)
(***************************************************************************)
PerItemTable == [exists |-> TRUE, docs |-> <<[fieldnames |-> CsvFieldnames, rows |-> per_item]>>]

C15_PerItemFileIffPathAndItems ==
  /\ [](Succeeded => report_file.exists)
  /\ [](Succeeded =>
          IF per_item_csv_path # "None" /\ per_item # <<>>
          THEN csv_file = PerItemTable
          ELSE csv_file \in {NoFile, StaleCsv})
  /\ [][csv_file' # csv_file
          => /\ per_item_csv_path # "None"
             /\ per_item # <<>>
             /\ Len(per_item) = Len(RecordLines(test_file))
             /\ raised = "none"]_vars

C15_Witness ==
  /\ Succeeded
  /\ per_item_csv_path = "per_item.csv"
  /\ per_item = <<>>
  /\ csv_file = StaleCsv
  /\ report_file.exists


(***************************************************************************)
(* C16.  With an empty test set (no non-blank test line) evaluate does not *)
(* raise: it writes a report whose count is 0, whose three means and two   *)
(* percentiles are 0.0 and which has no bucket row.  No division by zero   *)
(* and no out-of-range index is reachable.  (A run whose predictions file  *)
(* does not load stops before the statistics: see C17.)                    *)
(***************************************************************************)
EmptyTestSet == RecordLines(test_file) = <<>>

PredictionsLoad == AllParse(pred_file) /\ RequiredFields(pred_file, {"id"})

EmptyReport ==
  [count |-> 0, rouge1_mean |-> 0, rouge2_mean |-> 0, rougeL_mean |-> 0,
   rougeL_p10 |-> 0, rougeL_p90 |-> 0, rows |-> <<>>]

C16_EmptyTestSetReport ==
  /\ raised \notin {"ZeroDivisionError", "IndexError"}
  /\ EmptyTestSet /\ PredictionsLoad => raised = "none" /\ epc # "raised"
  /\ EmptyTestSet /\ epc \in {"return", "exited"} /\ raised = "none"
       => /\ report_file = [exists |-> TRUE, docs |-> <<EmptyReport>>]
          /\ bucket_scores = NoBuckets
          /\ per_item = <<>>

C16_Witness ==
  /\ Succeeded
  /\ test_file = <<BlankLine, BlankLine>>
  /\ pred_file = <<JsonLine(Prediction(JStr(T1), JStr(A_B)))>>
  /\ report_file.docs = <<EmptyReport>>


(***************************************************************************)
(* C17.  In both input files blank lines are skipped and every non-blank   *)
(* line must parse: a malformed non-blank line in either file aborts       *)
(* evaluate with an error that reaches the caller; it is never skipped,    *)
(* and no report is produced from the remaining lines.                     *)
(***************************************************************************)
ObjectsOf(f) == [q \in 1..Len(RecordLines(f)) |-> RecordLines(f)[q].obj]

C17_MalformedLineAborts ==
  /\ ~AllParse(test_file) \/ ~AllParse(pred_file)
       => /\ epc \in {"load_tests", "load_preds", "raised", "exited"}
          /\ ~report_file.exists
          /\ csv_file \in {NoFile, StaleCsv}
          /\ epc = "exited" => raised # "none" /\ exit_status = 1 /\ stdout = NoOutput
  /\ ~AllParse(test_file) /\ epc \in {"raised", "exited"} => raised = "JSONDecodeError"
  /\ epc \in {"load_preds", "score", "report", "return"}
       => tests = ObjectsOf(test_file)
  /\ epc \in {"score", "report", "return"}
       => DOMAIN preds = {ObjectsOf(pred_file)[q]["id"] : q \in 1..Len(ObjectsOf(pred_file))}

C17_Witness ==
  /\ Failed
  /\ test_file = <<JsonLine(TestCase(JStr(T1), JStr(A_B), JStr(Easy), JStr(Rent)))>>
  /\ pred_file = <<BlankLine, MalformedLine>>
  /\ raised = "JSONDecodeError"
  /\ ~report_file.exists


(***************************************************************************)
(* C18.  The command-line run prints the report path on success; on a      *)
(* fatal input-parsing error it terminates with nonzero status and a       *)
(* message identifying the offending file and line.                        *)
(***************************************************************************)
\* The number, in the file, of its first line that does not parse.
FirstMalformed(f) ==
  CHOOSE q \in 1..Len(f) : f[q].kind = "malformed" /\ \A q2 \in 1..(q - 1) : f[q2].kind # "malformed"

OffendingPath == IF ~AllParse(test_file) THEN TestPath ELSE PredPath

OffendingLine == IF ~AllParse(test_file) THEN FirstMalformed(test_file) ELSE FirstMalformed(pred_file)

ParseFailed == epc = "exited" /\ raised = "JSONDecodeError"

C18_CliReportsFileAndLine ==
  /\ Succeeded => stdout = <<"Report written to: ", OutPath>>
  /\ ParseFailed
       => /\ exit_status # 0
          /\ stderr.path = OffendingPath
          /\ stderr.lineno = OffendingLine

\* What does hold of the command line: the path is printed on success, and
\* a parse error ends the process with status 1 and the traceback.
C18_ExitStatus ==
  /\ Succeeded => stdout = <<"Report written to: ", OutPath>> /\ stderr = NoOutput
  /\ ParseFailed => exit_status = 1 /\ stdout = NoOutput /\ stderr = Traceback("JSONDecodeError")

C18_Witness ==
  /\ ParseFailed
  /\ test_file = <<JsonLine(TestCase(JStr(T1), JStr(A_B), JStr(Easy), JStr(Rent))), MalformedLine>>
  /\ stderr.lineno = 1
  /\ OffendingLine = 2


(***************************************************************************)
(* C19.  evaluate is deterministic: a second run on the same test and      *)
(* prediction inputs leaves byte-identical report text and identical       *)
(* per-item rows; the report depends on the two input record sequences     *)
(* only, on no timestamp and on no hash or insertion order of the buckets. *)
(***************************************************************************)
SecondRunOver == run = 2 /\ epc = "exited"

ReportRows == report_file.docs[1].rows

RowKey(row) == <<JStr(row.difficulty), JStr(row.topic)>>

\* Lexicographic order of pairs of strings.
PairBefore(a, b) ==
  \/ StrLess(a[1].v, b[1].v)
  \/ a[1].v = b[1].v /\ StrLess(a[2].v, b[2].v)

RECURSIVE SumRougeL(_)
SumRougeL(S) ==
  IF S = {} THEN Zero
  ELSE LET q == CHOOSE m \in S : TRUE
       IN RAdd(per_item[q].rougeL_f1, SumRougeL(S \ {q}))

MeanRougeL(S) == RQuot(SumRougeL(S), IntR(Cardinality(S)))

C20_BucketRows ==
  epc \in {"return", "exited"} /\ raised = "none"
    => /\ {RowKey(ReportRows[q]) : q \in 1..Len(ReportRows)}
            = {BucketOf(TestRecord(q)) : q \in 1..Len(RecordLines(test_file))}
       /\ \A q1, q2 \in 1..Len(ReportRows) :
             q1 < q2 => PairBefore(RowKey(ReportRows[q1]), RowKey(ReportRows[q2]))
       /\ \A q \in 1..Len(ReportRows) :
             /\ ReportRows[q].cnt = Cardinality(Members(RowKey(ReportRows[q])))
             /\ ReportRows[q].cnt >= 1
             /\ ReportRows[q].rl_mean = Fmt3(MeanRougeL(Members(RowKey(ReportRows[q]))))

C20_Witness ==
  /\ Succeeded
  /\ test_file = <<JsonLine(TestCase(JStr(T1), JStr(A_B), JStr(Hard), JStr(Deposit))),
                   JsonLine(TestCase(JStr(T2), JStr(B), JStr(Easy), JStr(Rent)))>>
  /\ pred_file = <<JsonLine(Prediction(JStr(T2), JStr(A_B)))>>
  /\ ReportRows = <<[difficulty |-> Easy, topic |-> Rent, cnt |-> 1, rl_mean |-> 667],
                    [difficulty |-> Hard, topic |-> Deposit, cnt |-> 1, rl_mean |-> 0]>>


(***************************************************************************)
(* C21.  For a run with exactly one test case each overall mean of the     *)
(* report (ROUGE-1, ROUGE-2, ROUGE-L F1) equals that item's F1 score       *)
(* exactly, and the mean of the single bucket equals its ROUGE-L F1.       *)
(***************************************************************************)
OneTestCase == Len(RecordLines(test_file)) = 1

\* The statistics computed from the locals of the run.
Overall == BuildReport(per_item, overall_r1, overall_r2, overall_rl, bucket_scores).overall

C21_SingleItemMeans ==
  OneTestCase /\ epc \in {"report", "return", "exited"} /\ raised = "none"
    => /\ Len(per_item) = 1
       /\ Overall.count = 1
       /\ Overall.rouge1_mean = per_item[1].rouge1_f1
       /\ Overall.rouge2_mean = per_item[1].rouge2_f1
       /\ Overall.rougeL_mean = per_item[1].rougeL_f1
       /\ DOMAIN bucket_scores = {BucketOf(TestRecord(1))}
       /\ bucket_scores[BucketOf(TestRecord(1))] = <<per_item[1].rougeL_f1>>
       /\ epc \in {"return", "exited"}
            => /\ report_file.docs[1].rouge1_mean = Fmt3(per_item[1].rouge1_f1)
               /\ report_file.docs[1].rouge2_mean = Fmt3(per_item[1].rouge2_f1)
               /\ report_file.docs[1].rougeL_mean = Fmt3(per_item[1].rougeL_f1)
               /\ Len(ReportRows) = 1
               /\ ReportRows[1].cnt = 1
               /\ ReportRows[1].rl_mean = Fmt3(per_item[1].rougeL_f1)

C21_Witness ==
  /\ Succeeded
  /\ OneTestCase
  /\ per_item[1].rougeL_f1 = <<2, 3>>
  /\ report_file.docs[1].rougeL_mean = 667
  /\ ReportRows[1].rl_mean = 667


(***************************************************************************)
(* C22.  A test record with no difficulty field or no topic field, or with *)
(* the field null, is given the literal string "unknown"; the resolved     *)
(* value is used in the per-item row and in the bucket key alike, so the   *)
(* records lacking both fields fall into one bucket ("unknown","unknown"). *)
(***************************************************************************)
Lacks(tc, fld) == tc[fld].t = "absent" \/ tc[fld].t = "null"

UnknownBucket == <<JStr(Unknown), JStr(Unknown)>>

LackingBoth == {q \in 1..Len(per_item) : Lacks(TestRecord(q), "difficulty") /\ Lacks(TestRecord(q), "topic")}

C22_MissingLabelsAreUnknown ==
  /\ \A q \in 1..Len(per_item) :
       /\ Lacks(TestRecord(q), "difficulty") => per_item[q].difficulty = JStr(Unknown)
       /\ ~Lacks(TestRecord(q), "difficulty") => per_item[q].difficulty = TestRecord(q)["difficulty"]
       /\ Lacks(TestRecord(q), "topic") => per_item[q].topic = JStr(Unknown)
       /\ ~Lacks(TestRecord(q), "topic") => per_item[q].topic = TestRecord(q)["topic"]
       /\ <<per_item[q].difficulty, per_item[q].topic>> \in DOMAIN bucket_scores
  /\ \A key \in DOMAIN bucket_scores :
       Len(bucket_scores[key])
         = Cardinality({q \in 1..Len(per_item) : <<per_item[q].difficulty, per_item[q].topic>> = key})
  /\ LackingBoth # {}
       => /\ UnknownBucket \in DOMAIN bucket_scores
          /\ Len(bucket_scores[UnknownBucket]) = Cardinality(LackingBoth)
  /\ epc \in {"return", "exited"} /\ raised = "none"
       => \A q \in 1..Len(ReportRows) :
            RowKey(ReportRows[q]) = UnknownBucket => ReportRows[q].cnt = Cardinality(LackingBoth)

C22_Witness ==
  /\ Succeeded
  /\ test_file = <<JsonLine(TestCase(JStr(T1), JStr(A_B), JAbsent, JNull)),
                   JsonLine(TestCase(JStr(T2), JStr(B), JAbsent, JNull))>>
  /\ DOMAIN bucket_scores = {UnknownBucket}
  /\ ReportRows[1].difficulty = Unknown
  /\ ReportRows[1].topic = Unknown
  /\ ReportRows[1].cnt = 2


(***************************************************************************)
(* C23.  For a ROUGE-L F1 series of length n >= 1, sorted ascending,       *)
(* evaluate reports p10 = sorted[floor(0.1*n)] and                         *)
(* p90 = sorted[floor(0.9*n) - 1], the p90 index guarded against negative  *)
(* values: for every n >= 1, n = 1 included, both indices select an        *)
(* existing element, no out-of-range access occurs, and p90 equals         *)
(* sorted[max(0, floor(0.9*n) - 1)].                                       *)
(***************************************************************************)
StatsDone == spc = "done"

\* The number of entries of the sequence xs equal to v.
CountIn(xs, v) == Cardinality({q \in 1..Len(xs) : xs[q] = v})

\* ys is xs in ascending order.
IsAscendingOf(ys, xs) ==
  /\ Len(ys) = Len(xs)
  /\ \A v \in Scores : CountIn(ys, v) = CountIn(xs, v)
  /\ \A q \in 1..(Len(ys) - 1) : RLe(ys[q], ys[q + 1])

\* The zero-based element at index k of the ascending order of rl_series.
Ascending == CHOOSE ys \in [1..Len(rl_series) -> Scores] : IsAscendingOf(ys, rl_series)

C23_PercentileIndices ==
  StatsDone /\ Len(rl_series) >= 1
    => /\ stats.exc = "none"
       /\ (Len(rl_series) \div 10) \in 0..(Len(rl_series) - 1)
       /\ Max(0, (9 * Len(rl_series)) \div 10 - 1) \in 0..(Len(rl_series) - 1)
       /\ stats.p10 = Ascending[(Len(rl_series) \div 10) + 1]
       /\ stats.p90 = Ascending[Max(0, (9 * Len(rl_series)) \div 10 - 1) + 1]

C23_Witness ==
  /\ StatsDone
  /\ rl_series = <<One>>
  /\ stats = [exc |-> "none", mean |-> One, p10 |-> One, p90 |-> One]


(***************************************************************************)
(* C28.  For every non-empty ROUGE-L F1 series the reported p10 and p90    *)
(* are both elements of the series, and                                    *)
(* min(series) <= p10 <= p90 <= max(series).                               *)
(***************************************************************************)
Elements(xs) == {xs[q] : q \in 1..Len(xs)}

Least(S) == CHOOSE v \in S : \A w \in S : RLe(v, w)

Greatest(S) == CHOOSE v \in S : \A w \in S : RLe(w, v)

C28_PercentilesWithinSeries ==
  StatsDone /\ rl_series # <<>>
    => /\ stats.exc = "none"
       /\ stats.p10 \in Elements(rl_series)
       /\ stats.p90 \in Elements(rl_series)
       /\ RLe(Least(Elements(rl_series)), stats.p10)
       /\ RLe(stats.p10, stats.p90)
       /\ RLe(stats.p90, Greatest(Elements(rl_series)))

C28_Witness ==
  /\ StatsDone
  /\ rl_series = <<One, <<1, 2>>, <<1, 2>>>>
  /\ stats.p10 = <<1, 2>>
  /\ stats.p90 = <<1, 2>>
  /\ Greatest(Elements(rl_series)) = One


(***************************************************************************)
(* C24.  evaluate writes its files only at the end of the pass: no output  *)
(* file is written before both inputs are parsed and every test case is    *)
(* scored, and the per-item table, when written, is written before the     *)
(* report; so a run that aborts on malformed input or on a record lacking  *)
(* a required field leaves both output paths untouched.                    *)
(***************************************************************************)
PassComplete ==
  /\ raised = "none"
  /\ tests = ObjectsOf(test_file)
  /\ DOMAIN preds = {ObjectsOf(pred_file)[q]["id"] : q \in 1..Len(ObjectsOf(pred_file))}
  /\ Len(per_item) = Len(tests)
  /\ Len(overall_rl) = Len(tests)

C24_WritesOnlyAtEnd ==
  /\ [][csv_file' # csv_file => PassComplete /\ report_file' = report_file]_vars
  /\ [][report_file' # report_file
          => /\ PassComplete
             /\ per_item_csv_path # "None" /\ per_item # <<>> => csv_file = PerItemTable
             /\ csv_file' = csv_file]_vars
  /\ [](run = 1 /\ epc \in {"load_tests", "load_preds", "score", "raised"}
          => ~report_file.exists /\ csv_file \in {NoFile, StaleCsv})
  /\ [](raised # "none" => ~report_file.exists /\ csv_file \in {NoFile, StaleCsv})

C24_Witness ==
  /\ Failed
  /\ raised = "KeyError"
  /\ test_file = <<JsonLine(TestCase(JStr(T2), JStr(B), JStr(Easy), JStr(Rent))),
                   JsonLine(TestCase(JStr(T1), JAbsent, JStr(Easy), JStr(Rent)))>>
  /\ AllParse(pred_file) /\ RequiredFields(pred_file, {"id"})
  /\ Len(per_item) = 1
  /\ per_item_csv_path = "per_item.csv"
  /\ csv_file = NoFile
  /\ ~report_file.exists


(***************************************************************************)
(* C25.  After every iteration of the scoring loop each scored test case   *)
(* belongs to exactly one bucket: the bucket counts add up to the number   *)
(* of per-item rows and to the length of each overall F1 series, no bucket *)
(* is empty, and the ROUGE-L values of all buckets add up to the sum of    *)
(* the overall ROUGE-L series.                                             *)
(***************************************************************************)
RECURSIVE BucketCountSum(_)
BucketCountSum(keys) ==
  IF keys = {} THEN 0
  ELSE LET key == CHOOSE x \in keys : TRUE
       IN Len(bucket_scores[key]) + BucketCountSum(keys \ {key})

RECURSIVE BucketValueSum(_)
BucketValueSum(keys) ==
  IF keys = {} THEN Zero
  ELSE LET key == CHOOSE x \in keys : TRUE
       IN RAdd(sum(bucket_scores[key]), BucketValueSum(keys \ {key}))

C25_BucketsPartitionItems ==
  /\ BucketCountSum(DOMAIN bucket_scores) = Len(per_item)
  /\ Len(overall_r1) = Len(per_item)
  /\ Len(overall_r2) = Len(per_item)
  /\ Len(overall_rl) = Len(per_item)
  /\ \A key \in DOMAIN bucket_scores : bucket_scores[key] # <<>>
  /\ BucketValueSum(DOMAIN bucket_scores) = sum(overall_rl)
  /\ \A q \in 1..Len(per_item) :
       Cardinality({key \in DOMAIN bucket_scores : q \in Members(key)}) = 1

C25_Witness ==
  /\ epc = "score"
  /\ t_idx = 3
  /\ Cardinality(DOMAIN bucket_scores) = 1
  /\ overall_rl = <<One, <<2, 3>>>>
  /\ BucketValueSum(DOMAIN bucket_scores) = <<5, 3>>


(***************************************************************************)
(* C26.  For every reference/candidate pair the LCS length used by         *)
(* rouge_l_f1 is at most the clipped unigram overlap used by rouge_n with  *)
(* n = 1, so ROUGE-L precision, recall and f1 are each at most the         *)
(* corresponding ROUGE-1 value; hence every per-item row has               *)
(* rougeL_f1 <= rouge1_f1.                                                 *)
(***************************************************************************)
C26_RougeLAtMostRouge1 ==
  /\ CalledN(1) /\ CalledL
       => /\ r_l.lcs <= r_n[1].overlap
          /\ r_l.pred_len = r_n[1].pred_total
          /\ r_l.ref_len = r_n[1].ref_total
          /\ RLe(r_l.precision, r_n[1].precision)
          /\ RLe(r_l.recall, r_n[1].recall)
          /\ RLe(r_l.f1, r_n[1].f1)

\* The same of the rows of a run of evaluate.
C26_RowsRougeLAtMostRouge1 ==
  \A q \in 1..Len(per_item) :
     /\ RLe(per_item[q].rougeL_f1, per_item[q].rouge1_f1)
     /\ RLe(overall_rl[q], overall_r1[q])

C26_Witness ==
  /\ CalledN(1) /\ CalledL
  /\ ref = Str(<<"a", " ", "b">>) /\ pred = Str(<<"b", " ", "a">>)
  /\ r_l.lcs = 1 /\ r_n[1].overlap = 2
  /\ r_l.f1 = <<1, 2>> /\ r_n[1].f1 = One


(***************************************************************************)
(* C27.  Prediction records whose id matches no test case have no effect:  *)
(* two runs whose prediction inputs differ only in records with ids absent *)
(* from the test set give identical reports and identical per-item rows.   *)
(***************************************************************************)
TestIds == {RecordLines(test_file)[q].obj["id"] : q \in 1..Len(RecordLines(test_file))}

\* The line is a prediction record with an id that no test record has.
Irrelevant(l) == l.kind = "json" /\ l.obj["id"].t # "absent" /\ l.obj["id"] \notin TestIds

\* The predictions file without those lines.
RECURSIVE Relevant(_)
Relevant(f) ==
  IF f = <<>> THEN <<>>
  ELSE IF Irrelevant(Head(f)) THEN Relevant(Tail(f))
  ELSE <<Head(f)>> \o Relevant(Tail(f))

\* What the loop computes for the q-th test record from the predictions file f.
RowFrom(q, f) == ScoreTest(TestRecord(q), load_preds(f).val)

\* The report rendered from the rows that the predictions file f gives.
RECURSIVE BucketsFrom(_, _)
BucketsFrom(q, f) ==
  IF q = 0 THEN NoBuckets
  ELSE BucketAppend(BucketsFrom(q - 1, f), RowFrom(q, f).bkey, RowFrom(q, f).row.rougeL_f1)

ReportFrom(f) ==
  LET m == Len(RecordLines(test_file))
  IN BuildReport([q \in 1..m |-> RowFrom(q, f).row],
                 [q \in 1..m |-> RowFrom(q, f).row.rouge1_f1],
                 [q \in 1..m |-> RowFrom(q, f).row.rouge2_f1],
                 [q \in 1..m |-> RowFrom(q, f).row.rougeL_f1],
                 BucketsFrom(m, f)).lines

C27_UnmatchedPredictionsIgnored ==
  /\ epc \in {"score", "report", "return", "exited"} /\ raised = "none"
       => load_preds(Relevant(pred_file)).exc = "none"
  /\ \A q \in 1..Len(per_item) : per_item[q] = RowFrom(q, Relevant(pred_file)).row
  /\ Succeeded
       => /\ report_file.docs = <<ReportFrom(Relevant(pred_file))>>
          /\ per_item = [q \in 1..Len(per_item) |-> RowFrom(q, Relevant(pred_file)).row]

C27_Witness ==
  /\ Succeeded
  /\ test_file = <<JsonLine(TestCase(JStr(T1), JStr(A_B), JStr(Easy), JStr(Rent)))>>
  /\ pred_file = <<JsonLine(Prediction(JStr(T2), JStr(A_B)))>>
  /\ Relevant(pred_file) = <<>>
  /\ per_item[1].rougeL_f1 = Zero


(***************************************************************************)
(* C29.  In a sequential series of register_user and authenticate_user     *)
(* calls register_user never overwrites an account: registering a username *)
(* already present under that role, or with a role other than "landlords"  *)
(* and "tenants", returns (False, message) and leaves the user store       *)
(* unchanged, so authenticate_user for that username and role succeeds     *)
(* exactly with the password of the first successful registration.         *)
(***************************************************************************)
\* The account is in the file.
Present(db, role, username) ==
  db.state = "json" /\ role \in DOMAIN db.users /\ username \in DOMAIN db.users[role]

\* The step is the return of caller c from a call of op.
Returns(c, op) == upc[c] = "decide" /\ upc'[c] = "returned" /\ ucall[c].op = op

C29_RegisterNeverOverwrites ==
  /\ [][\A c \in Callers :
          Returns(c, "register_user")
            => /\ uret'[c].ok
                    <=> /\ ucall[c].role \in ValidRoles
                        /\ ~Present(users_db, ucall[c].role, ucall[c].username)
               /\ ~uret'[c].ok => users_db' = users_db /\ uret'[c].msg # "none"
               /\ uret'[c].ok
                    => /\ Present(users_db', ucall[c].role, ucall[c].username)
                       /\ users_db'.users[ucall[c].role][ucall[c].username].password
                            = _hash_password(ucall[c].password)]_vars
  /\ [][\A r \in ValidRoles, u \in Usernames :
          Present(users_db, r, u)
            => Present(users_db', r, u) /\ users_db'.users[r][u] = users_db.users[r][u]]_vars
  /\ [][\A c \in Callers :
          Returns(c, "authenticate_user")
            => (uret'[c].ok
                  <=> /\ ucall[c].role \in ValidRoles
                      /\ registered[<<ucall[c].role, ucall[c].username>>] = ucall[c].password)]_vars

C29_Witness ==
  /\ upc["c1"] = "returned"
  /\ ucall["c1"] = [op |-> "register_user", username |-> "alice", password |-> "pw2",
                    role |-> "tenants", email |-> ""]
  /\ uret["c1"] = [ok |-> FALSE, msg |-> "username exists"]
  /\ registered[<<"tenants", "alice">>] = "pw1"
  /\ users_db.users["tenants"]["alice"].password = _hash_password("pw1")


(***************************************************************************)
(* C30.  When two register_user calls for different new usernames run      *)
(* concurrently, their reads of db/users.json and their writes interleaved *)
(* in any order, and both return success, both accounts are in the user    *)
(* store afterwards and both can authenticate: no successful registration  *)
(* is lost.                                                                *)
(***************************************************************************)
Registered(c) == upc[c] = "returned" /\ ucall[c].op = "register_user" /\ uret[c].ok

\* authenticate_user with the name, password and role of the call of c
\* would succeed on the file as it is.
CanAuthenticate(c) ==
  /\ users_db.state = "json"
  /\ authenticate_decide(users_db.users, ucall[c]).ok

C30_NoLostRegistration ==
  /\ Registered("c1") /\ Registered("c2")
  /\ ucall["c1"].username # ucall["c2"].username
  => /\ Present(users_db, ucall["c1"].role, ucall["c1"].username)
     /\ Present(users_db, ucall["c2"].role, ucall["c2"].username)
     /\ CanAuthenticate("c1")
     /\ CanAuthenticate("c2")

\* The lost registration: both calls returned success, the file holds bob only.
C30_Witness ==
  /\ Registered("c1") /\ Registered("c2")
  /\ ucall["c1"].username = "alice" /\ ucall["c2"].username = "bob"
  /\ ucall["c1"].role = "tenants" /\ ucall["c2"].role = "tenants"
  /\ ncalls = 2
  /\ ~Present(users_db, "tenants", "alice")
  /\ Present(users_db, "tenants", "bob")

====
